---- MODULE Spec2Model ----
(***************************************************************************)
(* The dashboard front end of static/js/dashboard.js as a state machine:   *)
(* the globals window.dashboardData and window.modelResults, the DOM       *)
(* controls the handlers read and write, and the fetch requests in flight. *)
(* A request is sent by the handler that issues it, answered by the        *)
(* network (Respond actions) and settled by the promise callbacks.         *)
(***************************************************************************)
EXTENDS Integers, Sequences, FiniteSets, TLC

VARIABLES
    dashboardData,    \* window.dashboardData
    dataOrigin,       \* provenance of dashboardData: "none", "server", "fixture"
    targetOptions,    \* <option>s of the #target-column select, in order
    modelResults,     \* window.modelResults
    resultsOrigin,    \* provenance of modelResults: "none", "server", "fixture"
    loadingOverlay,   \* TRUE iff #loading-overlay lacks the class "hidden"
    targetNameLabel,  \* textContent of #model-target-name
    loads,            \* the GET /api/data requests issued so far
    trains,           \* the trainModel invocations so far
    lastPost,         \* body of the last POST /api/train_model
    predictions,      \* presenter input: [actual, predicted]
    categoricalView,  \* what createCategoricalPredictionTable rendered
    featureImportance,\* presenter input: entries <<feature, weight>> in key order
    importanceView,   \* the three rankings rendered from featureImportance, and the metrics
    resultData,       \* presenter input: is_categorical_target and the metrics entries
    summaryView,      \* what the page shows of the summary: cards, charts, scatter, insights
    mockSavedModels,  \* the localStorage item 'mockSavedModels'
    savedModelsView,  \* the rows of #saved-models-list
    storeCall,        \* the last call on the model store, with the list it found
    deletes,          \* the DELETE /api/model requests issued so far
    uploadPage,       \* the upload page: location, overlay, error box, submit button
    uploads,          \* the POST requests the upload form issued so far
    previewData,      \* window.previewData
    previewPagination,\* window.previewPagination
    previewView,      \* the data-preview panels, table body and paging buttons
    searchInput,      \* value of #data-search
    columnSelect,     \* value of #data-search-column
    previews,         \* the GET /api/data-preview requests issued so far
    chartType,        \* value of the #chart-type select
    chartWrappers     \* the .chart-wrapper elements of #chart-container, in order

dashVars == <<dashboardData, dataOrigin, targetOptions, modelResults, resultsOrigin,
              loadingOverlay, targetNameLabel, loads, trains, lastPost>>
presVars == <<predictions, categoricalView, featureImportance, importanceView, resultData>>
pageVars == <<summaryView>>
storeVars == <<mockSavedModels, savedModelsView, storeCall, deletes>>
uploadVars == <<uploadPage, uploads>>
previewVars == <<previewData, previewPagination, previewView, searchInput, columnSelect,
                 previews>>
chartVars == <<chartType, chartWrappers>>
vars == <<dashVars, presVars, pageVars, storeVars, uploadVars, previewVars, chartVars>>

----------------------------------------------------------------------------
(* Bounds of the model *)
\* Requests the page issues in one run: loadData and trainModel calls together.
MaxRequests == 3
\* Presenter inputs: rows of a predictions sample, distinct class labels,
\* entries of a feature-importance mapping and the weights they take.
MaxRows == 22
MaxLabels == 12
MaxFeatures == 6
MaxWeight == 2
\* Models the store holds, and DELETE requests the page issues in one run.
MaxStored == 2
MaxDeletes == 2
\* Submissions of the upload form in one run.
MaxUploads == 3
\* Calls of loadDataPreview and loadDummyDataPreview by the callbacks of
\* loadData in one run.
MaxPreviewLoads == 2

----------------------------------------------------------------------------
(* Values *)

RangeOf(s) == {s[i] : i \in 1..Len(s)}

\* A column's statistics entry: only the type tag is read by the handlers modelled.
Col(n, t) == [name |-> n, type |-> t]

\* A numeric column's statistics entry (min, max, unique_values; its
\* value_counts is the empty object) and a categorical one's (value_counts as
\* entries <<label, count>> in key order, unique_values as the object states it).
NumericCol(n, lo, hi, unique) ==
    [name |-> n, type |-> "numeric", min |-> lo, max |-> hi,
     value_counts |-> <<>>, unique_values |-> unique]

CategoricalCol(n, counts, unique) ==
    [name |-> n, type |-> "categorical", min |-> 0, max |-> 0,
     value_counts |-> counts, unique_values |-> unique]

\* The stats object literal of createDummyData, lines 408-449.
DummyStats ==
    <<NumericCol("Age", 18, 65, 48),
      CategoricalCol("Department",
                     <<<<"Engineering", 112>>, <<"Marketing", 56>>, <<"Sales", 98>>,
                       <<"HR", 23>>, <<"Finance", 43>>>>, 5),
      CategoricalCol("Education",
                     <<<<"Bachelor", 234>>, <<"Master", 143>>, <<"PhD", 45>>,
                       <<"High School", 98>>>>, 4),
      NumericCol("Salary", 30000, 150000, 120)>>

\* createDummyData: the object returned at lines 451-461; column_count is
\* Object.keys(stats).length.
createDummyData ==
    [defined |-> TRUE,
     keys    |-> {"success", "row_count", "column_count", "stats", "filter_options"},
     row_count |-> 520,
     column_count |-> Len(DummyStats),
     stats   |-> DummyStats]

\* Bodies the server may answer GET /api/data with (response.ok, valid JSON).
ServerSummaryA ==
    [defined |-> TRUE,
     keys    |-> {"success", "row_count", "column_count", "stats", "filter_options"},
     row_count |-> 4,
     column_count |-> 2,
     stats   |-> <<NumericCol("Age", 18, 65, 3),
                   CategoricalCol("Department", <<<<"Engineering", 3>>, <<"Sales", 1>>>>, 2)>>]

ServerNoStats ==
    [defined |-> TRUE, keys |-> {"success", "error"}, row_count |-> 0, column_count |-> 0,
     stats |-> <<>>]

Undefined == [defined |-> FALSE, keys |-> {}, row_count |-> 0, column_count |-> 0,
              stats |-> <<>>]

LoadBodies == {ServerSummaryA, ServerNoStats}

\* data.stats as the handlers see it: a missing key reads as undefined (falsy).
HasStats(data) == data.defined /\ "stats" \in data.keys

\* Object.keys(stats)
StatsKeys(data) == IF HasStats(data) THEN {c.name : c \in RangeOf(data.stats)} ELSE {}

----------------------------------------------------------------------------
(* DOM helpers *)

EmptyOption == [value |-> "", type |-> ""]

\* populateTargetColumnSelect: the placeholder option, then one option per column.
populateTargetColumnSelect(stats) ==
    <<EmptyOption>> \o [i \in 1..Len(stats) |-> [value |-> stats[i].name, type |-> stats[i].type]]

\* displayData, as far as the target select goes: an object without stats is
\* reported ('Invalid data format') and nothing is redrawn.
displayData(data, options) ==
    IF HasStats(data) THEN populateTargetColumnSelect(data.stats) ELSE options

----------------------------------------------------------------------------
(* Form inputs of the model form *)

ModelNames == {"", " ", "model1"}

\* String.prototype.trim on the names above.
Trim(s) == IF s = " " THEN "" ELSE s

\* Values of the #model-type select: two of the four types the form's parameter
\* sections know (toggleModelParams); trainModel treats all four alike.
ModelTypes == {"LinearRegression", "RandomForest"}

\* The #test-size control: absent from the page, or present with a value, a
\* string of decimal digits (a range input), possibly empty.
TestSizeStrings == {<<>>, <<0>>, <<3, 5>>, <<1, 0, 0>>}
TestSizeControls ==
    {[present |-> FALSE, value |-> <<>>]} \cup
    {[present |-> TRUE, value |-> v] : v \in TestSizeStrings}

\* ToNumber of a string of decimal digits, as the division by 100 applies it.
RECURSIVE ToNumber(_)
ToNumber(digits) ==
    IF digits = <<>> THEN 0
    ELSE 10 * ToNumber(SubSeq(digits, 1, Len(digits) - 1)) + digits[Len(digits)]

\* document.getElementById('test-size')?.value || 20 : undefined and the empty
\* string are falsy, every other string (also "0") is truthy.
TestSizeOf(ctl) ==
    IF ~ctl.present \/ ctl.value = <<>> THEN 20 ELSE ToNumber(ctl.value)

\* testSize / 100, kept as an exact fraction.
TestFraction(ctl) == [num |-> TestSizeOf(ctl), den |-> 100]

NoPost == [sent |-> FALSE, model_name |-> "", target_column |-> "", model_type |-> "",
           test_size |-> [num |-> 0, den |-> 1]]

\* The JSON body trainModel posts.
TrainBody(modelName, targetColumn, modelType, ctl) ==
    [sent |-> TRUE, model_name |-> modelName, target_column |-> targetColumn,
     model_type |-> modelType, test_size |-> TestFraction(ctl)]

----------------------------------------------------------------------------
(* Model results *)

NoResults == [defined |-> FALSE, target_column |-> "", model_type |-> "", keys |-> {}]

\* A success body of POST /api/train_model: the fields displayModelResults reads.
ServerResults(targetColumn, modelType) ==
    [defined |-> TRUE, target_column |-> targetColumn, model_type |-> modelType,
     keys |-> {"success", "target_column", "model_type", "metrics",
               "feature_importance", "predictions", "is_categorical_target"}]

\* createMockModelResults: the object returned at lines 1705-1718.
createMockModelResults(modelName, targetColumn, modelType) ==
    [defined |-> TRUE, target_column |-> targetColumn, model_type |-> modelType,
     keys |-> {"success", "model_id", "model_name", "target_column", "model_type",
               "params", "metrics", "feature_importance", "predictions",
               "is_categorical_target", "target_mapping", "created_at"}]

----------------------------------------------------------------------------
(* Loading overlay *)

\* showLoading(message): the overlay loses the class "hidden" (the message text
\* is not part of the state).
showLoading == loadingOverlay' = TRUE

\* hideLoading(): the overlay gets the class "hidden".
hideLoading == loadingOverlay' = FALSE

----------------------------------------------------------------------------
(* The mock model store: values *)

\* Values of a hyperparameter such as params.max_depth (collectModelParameters,
\* 1056-1063): a number, null ('None'), NaN (parseInt of an empty or missing
\* input), or no such property (undefined).
JNumber(n) == [t |-> "number", v |-> n]
JNull == [t |-> "null", v |-> 0]
JNaN == [t |-> "NaN", v |-> 0]
JUndefined == [t |-> "undefined", v |-> 0]
\* In a JSON text: the property is not written.
JOmitted == [t |-> "omitted", v |-> 0]

ParamValues == {JNumber(3), JNull, JNaN, JUndefined}
ModelIds == {"model_a", "model_b"}

\* A ModelResult as the store sees it: its identifier and one hyperparameter.
StoredModels == [model_id : ModelIds, max_depth : ParamValues]

\* JSON.stringify of a property value: NaN is written as null, an undefined
\* property is left out, a number and null are written as they are.
StringifyValue(value) ==
    IF value.t = "NaN" THEN JNull
    ELSE IF value.t = "undefined" THEN JOmitted
    ELSE value

\* JSON.parse, read property by property: a property that was left out reads
\* as undefined.
ParseValue(text) == IF text.t = "omitted" THEN JUndefined ELSE text

\* JSON.stringify / JSON.parse of an array of models.
JSONStringify(models) ==
    [i \in 1..Len(models) |->
        [model_id |-> models[i].model_id, max_depth |-> StringifyValue(models[i].max_depth)]]

JSONParse(text) ==
    [i \in 1..Len(text) |->
        [model_id |-> text[i].model_id, max_depth |-> ParseValue(text[i].max_depth)]]

\* localStorage.getItem('mockSavedModels') before any setItem: null.
NoItem == [present |-> FALSE, text |-> <<>>]

\* getMockSavedModels (2893-2904): the parsed item, [] without one. The item
\* is only ever written by setItem(JSON.stringify(...)), so it parses.
getMockSavedModels(item) == IF item.present THEN JSONParse(item.text) ELSE <<>>

NoStoreCall == [op |-> "none", id |-> "", model |-> [model_id |-> "", max_depth |-> JNull],
                before |-> <<>>, deletesBefore |-> 0]

StoreIdle ==
    /\ mockSavedModels = NoItem
    /\ savedModelsView = <<>>
    /\ storeCall = NoStoreCall
    /\ deletes = <<>>

----------------------------------------------------------------------------
(* What the page shows of the summary *)

NoCards == [shown |-> FALSE, rows |-> 0, columns |-> 0, numeric |-> 0, categorical |-> 0]
NoScatterSelects == [open |-> FALSE, xAxis |-> <<>>, yAxis |-> <<>>, colorBy |-> <<>>]
NoScatterPlot == [shown |-> FALSE, xAxis |-> "", yAxis |-> "", colorBy |-> "",
                  xRange |-> <<0, 0>>, yRange |-> <<0, 0>>, categories |-> <<>>]

\* The page before the first displayData.
NoSummaryView ==
    [cards |-> NoCards, charts |-> <<>>, scatterSelects |-> NoScatterSelects,
     scatterPlot |-> NoScatterPlot,
     insights |-> "none", pendingInsights |-> FALSE, pendingTrain |-> FALSE]

\* The upload page as served: no request, the error box and the overlay hidden.
UploadIdle ==
    /\ uploadPage = [location |-> "upload", fileChosen |-> FALSE, overlay |-> FALSE,
                     errorShown |-> FALSE, errorText |-> "", submitDisabled |-> FALSE]
    /\ uploads = <<>>

\* window.previewData and window.previewPagination before any preview arrived.
\* window.previewData refers to a preview object, named here: see PreviewOf.
NoPreview == "undefined"
NoPagination == [defined |-> FALSE, page |-> 0, totalPages |-> 0]

\* The data-preview section before the first loadDataPreview: nothing
\* rendered, the column select with its "All columns" option only, no listener
\* on the search input and the paging buttons.
AllColumns == 0 - 1
NoPreviewView ==
    [loading |-> FALSE, table |-> FALSE, empty |-> FALSE, noResults |-> FALSE,
     body |-> <<>>, total |-> 0, columnOptions |-> 0,
     prevDisabled |-> FALSE, nextDisabled |-> FALSE,
     searchWired |-> FALSE, clickListeners |-> 0, lastEvent |-> "none"]

PreviewIdle ==
    /\ previewData = NoPreview
    /\ previewPagination = NoPagination
    /\ previewView = NoPreviewView
    /\ searchInput = <<>>
    /\ columnSelect = AllColumns
    /\ previews = <<>>

\* The chart section before the first displayData: the select on its first
\* option, no wrapper.
ChartIdle ==
    /\ chartType = "all"
    /\ chartWrappers = <<>>

PageIdle ==
    /\ summaryView = NoSummaryView
    /\ StoreIdle
    /\ UploadIdle
    /\ PreviewIdle
    /\ ChartIdle

\* Number of the entries of stats with the given type tag.
CountType(stats, t) == Cardinality({i \in 1..Len(stats) : stats[i].type = t})

\* Cards that count the numeric columns only.
StatsCardsWithoutCategorical(data) ==
    [shown |-> TRUE,
     rows |-> IF "row_count" \in data.keys THEN data.row_count ELSE 0,
     columns |-> Cardinality(StatsKeys(data)),
     numeric |-> CountType(data.stats, "numeric"),
     categorical |-> 0]

\* updateStatsCards: the four cards, lines 492-525. data.row_count || 0; the
\* column count is the number of keys of data.stats.
updateStatsCards(data) ==
    [shown |-> TRUE,
     rows |-> IF "row_count" \in data.keys THEN data.row_count ELSE 0,
     columns |-> Cardinality(StatsKeys(data)),
     numeric |-> CountType(data.stats, "numeric"),
     categorical |-> CountType(data.stats, "categorical")]

\* createCharts: one chart wrapper per key of stats, tagged with its type.
createCharts(stats) ==
    [i \in 1..Len(stats) |-> [column |-> stats[i].name, type |-> stats[i].type]]

\* displayData, as far as the cards and the charts go (see displayData above
\* for the target select). createCharts empties #chart-container first (534):
\* a scatter plot, which createScatterPlot puts into that container, goes too.
DisplayedSummary(data, view) ==
    IF HasStats(data)
    THEN [view EXCEPT !.cards = updateStatsCards(data), !.charts = createCharts(data.stats),
                      !.scatterPlot = NoScatterPlot]
    ELSE view

\* The .chart-wrapper elements createCharts leaves in #chart-container: the
\* container is emptied (534), which also takes out a scatter plot, and one
\* wrapper per key of stats is appended with its data-type and no style.
ChartWrappersOf(stats) ==
    [i \in 1..Len(stats) |-> [type |-> stats[i].type, display |-> ""]]

\* displayData, as far as the wrappers go.
DisplayedWrappers(data, wrappers) ==
    IF HasStats(data) THEN ChartWrappersOf(data.stats) ELSE wrappers

\* createScatterPlot, lines 2514-2548: #scatter-plot-container is created as
\* the first child of #chart-container unless it is there already.
ScatterWrapper == [type |-> "scatter", display |-> ""]
WithScatterWrapper(wrappers) ==
    IF \E i \in 1..Len(wrappers) : wrappers[i].type = "scatter"
    THEN wrappers
    ELSE <<ScatterWrapper>> \o wrappers

----------------------------------------------------------------------------
(* loadData: GET /api/data/<id> *)

NewLoad == [state |-> "inflight", response |-> "none", body |-> Undefined, errorShown |-> FALSE]

\* The refresh button (and DOMContentLoaded, see Init): loadData up to fetch().
LoadData ==
    /\ Len(loads) + Len(trains) < MaxRequests
    /\ showLoading
    /\ loads' = Append(loads, NewLoad)
    /\ UNCHANGED <<dashboardData, dataOrigin, targetOptions, modelResults, resultsOrigin,
                   targetNameLabel, trains, lastPost>>
    /\ UNCHANGED presVars
    /\ UNCHANGED storeVars
    /\ UNCHANGED <<uploadVars, previewVars, chartVars>>
    /\ UNCHANGED pageVars

\* What the network can do with a pending GET, and the callback each outcome
\* leads to: a 2xx JSON body runs the second .then, a non-OK status throws in
\* the first .then, a rejected fetch and a body response.json() rejects skip
\* both; the three run the .catch.
LoadOutcomes == {"ok", "status", "reject", "badjson"}
LoadCallback(outcome) == IF outcome = "ok" THEN "then" ELSE "catch"

LoadRespond ==
    \E i \in 1..Len(loads), o \in LoadOutcomes, b \in LoadBodies :
        /\ loads[i].state = "inflight"
        /\ loads' = [loads EXCEPT ![i].state = "arrived",
                                  ![i].response = LoadCallback(o),
                                  ![i].body = IF o = "ok" THEN b ELSE Undefined]
        /\ UNCHANGED <<dashboardData, dataOrigin, targetOptions, modelResults, resultsOrigin,
                       loadingOverlay, targetNameLabel, trains, lastPost>>
        /\ UNCHANGED presVars
        /\ UNCHANGED storeVars
        /\ UNCHANGED <<uploadVars, previewVars, chartVars>>
        /\ UNCHANGED pageVars

\* .then(data => ...) of loadData, lines 29-41.
LoadThen ==
    \E i \in 1..Len(loads) :
        /\ loads[i].state = "arrived"
        /\ loads[i].response = "then"
        /\ hideLoading
        /\ targetOptions' = displayData(loads[i].body, targetOptions)
        /\ dashboardData' = loads[i].body
        /\ dataOrigin' = "server"
        /\ summaryView' = DisplayedSummary(loads[i].body, summaryView)
        /\ loads' = [loads EXCEPT ![i].state = "done", ![i].body = Undefined,
                                  ![i].errorShown = ~HasStats(loads[i].body)]
        /\ UNCHANGED <<modelResults, resultsOrigin, targetNameLabel, trains, lastPost>>
        /\ UNCHANGED presVars
        /\ UNCHANGED storeVars
        /\ chartWrappers' = DisplayedWrappers(loads[i].body, chartWrappers)
        /\ UNCHANGED <<uploadVars, previewVars, chartType>>

\* .catch(error => ...) of loadData, lines 42-54.
LoadCatch ==
    \E i \in 1..Len(loads) :
        /\ loads[i].state = "arrived"
        /\ loads[i].response = "catch"
        /\ hideLoading
        /\ targetOptions' = displayData(createDummyData, targetOptions)
        /\ dashboardData' = createDummyData
        /\ dataOrigin' = "fixture"
        /\ summaryView' = DisplayedSummary(createDummyData, summaryView)
        /\ loads' = [loads EXCEPT ![i].state = "done", ![i].errorShown = TRUE]
        /\ UNCHANGED <<modelResults, resultsOrigin, targetNameLabel, trains, lastPost>>
        /\ UNCHANGED presVars
        /\ UNCHANGED storeVars
        /\ chartWrappers' = DisplayedWrappers(createDummyData, chartWrappers)
        /\ UNCHANGED <<uploadVars, previewVars, chartType>>

----------------------------------------------------------------------------
(* trainModel: POST /api/train_model/<id> *)

\* A trainModel invocation that returned at its validation, after showError.
InvalidTrain(targetColumn) ==
    [state |-> "invalid", response |-> "none", target |-> targetColumn,
     modelName |-> "", modelType |-> "", posts |-> 0, errorShown |-> TRUE]

\* A trainModel invocation that reached fetch().
SentTrain(modelName, targetColumn, modelType) ==
    [state |-> "inflight", response |-> "none", target |-> targetColumn,
     modelName |-> modelName, modelType |-> modelType, posts |-> 1, errorShown |-> FALSE]

\* The submit handler of #model-form: trainModel up to fetch(), lines 977-1021.
TrainModel ==
    \E name \in ModelNames, k \in 1..Len(targetOptions), modelType \in ModelTypes,
       ctl \in TestSizeControls :
        LET modelName == Trim(name)
            targetColumn == targetOptions[k].value
        IN  /\ Len(loads) + Len(trains) < MaxRequests
            /\ IF modelName = "" \/ targetColumn = ""
               THEN /\ trains' = Append(trains, InvalidTrain(targetColumn))
                    /\ UNCHANGED <<targetNameLabel, loadingOverlay, lastPost>>
               ELSE /\ targetNameLabel' = targetColumn
                    /\ showLoading
                    /\ lastPost' = TrainBody(modelName, targetColumn, modelType, ctl)
                    /\ trains' = Append(trains, SentTrain(modelName, targetColumn, modelType))
            /\ UNCHANGED <<dashboardData, dataOrigin, targetOptions, modelResults,
                           resultsOrigin, loads>>
            /\ UNCHANGED presVars
            /\ UNCHANGED storeVars
            /\ UNCHANGED <<uploadVars, previewVars, chartVars>>
            /\ UNCHANGED pageVars

\* What the network can do with a pending POST, and the callback each outcome
\* ends in: JSON with success true that displayModelResults can render, JSON
\* with success false (the status is not looked at), JSON with success true but
\* no metrics (displayModelResults throws a TypeError inside the .then, which
\* runs the .catch), a rejected fetch, a body response.json() rejects.
TrainOutcomes == {"success", "failure", "malformed", "reject", "badjson"}
TrainCallback(outcome) ==
    IF outcome \in {"success", "failure"} THEN outcome ELSE "catch"

TrainRespond ==
    \E i \in 1..Len(trains), o \in TrainOutcomes :
        /\ trains[i].state = "inflight"
        /\ trains' = [trains EXCEPT ![i].state = "arrived", ![i].response = TrainCallback(o)]
        /\ UNCHANGED <<dashboardData, dataOrigin, targetOptions, modelResults, resultsOrigin,
                       loadingOverlay, targetNameLabel, loads, lastPost>>
        /\ UNCHANGED presVars
        /\ UNCHANGED storeVars
        /\ UNCHANGED <<uploadVars, previewVars, chartVars>>
        /\ UNCHANGED pageVars

\* .then(data => ...) of trainModel, lines 1023-1033, for a body that
\* displayModelResults can render.
TrainThen ==
    \E i \in 1..Len(trains) :
        /\ trains[i].state = "arrived"
        /\ trains[i].response \in {"success", "failure"}
        /\ hideLoading
        /\ IF trains[i].response = "success"
           THEN /\ modelResults' = ServerResults(trains[i].target, trains[i].modelType)
                /\ resultsOrigin' = "server"
                /\ trains' = [trains EXCEPT ![i].state = "done"]
           ELSE /\ trains' = [trains EXCEPT ![i].state = "done", ![i].errorShown = TRUE]
                /\ UNCHANGED <<modelResults, resultsOrigin>>
        /\ UNCHANGED <<dashboardData, dataOrigin, targetOptions, targetNameLabel, loads,
                       lastPost>>
        /\ UNCHANGED presVars
        /\ UNCHANGED storeVars
        /\ UNCHANGED <<uploadVars, previewVars, chartVars>>
        /\ UNCHANGED pageVars

\* A .catch that swallows the failure: no showError before the mock results.
TrainCatchSilent ==
    \E i \in 1..Len(trains) :
        /\ trains[i].state = "arrived"
        /\ trains[i].response = "catch"
        /\ hideLoading
        /\ modelResults' = createMockModelResults(trains[i].modelName, trains[i].target,
                                                  trains[i].modelType)
        /\ resultsOrigin' = "fixture"
        /\ trains' = [trains EXCEPT ![i].state = "done"]
        /\ UNCHANGED <<dashboardData, dataOrigin, targetOptions, targetNameLabel, loads,
                       lastPost>>
        /\ UNCHANGED presVars
        /\ UNCHANGED storeVars
        /\ UNCHANGED <<uploadVars, previewVars, chartVars>>
        /\ UNCHANGED pageVars

\* A .catch that also falls back to the dummy dataset, as loadData's does.
TrainCatchResetsData ==
    \E i \in 1..Len(trains) :
        /\ trains[i].state = "arrived"
        /\ trains[i].response = "catch"
        /\ hideLoading
        /\ modelResults' = createMockModelResults(trains[i].modelName, trains[i].target,
                                                  trains[i].modelType)
        /\ resultsOrigin' = "fixture"
        /\ trains' = [trains EXCEPT ![i].state = "done", ![i].errorShown = TRUE]
        /\ targetOptions' = displayData(createDummyData, targetOptions)
        /\ dashboardData' = createDummyData
        /\ dataOrigin' = "fixture"
        /\ summaryView' = DisplayedSummary(createDummyData, summaryView)
        /\ UNCHANGED <<targetNameLabel, loads, lastPost>>
        /\ UNCHANGED presVars
        /\ UNCHANGED storeVars
        /\ chartWrappers' = DisplayedWrappers(createDummyData, chartWrappers)
        /\ UNCHANGED <<uploadVars, previewVars, chartType>>

\* .catch(error => ...) of trainModel, lines 1034-1044: after a rejected fetch,
\* a body response.json() rejects, or a TypeError thrown by displayModelResults
\* in the callback above (Object.entries of the missing metrics).
TrainCatch ==
    \E i \in 1..Len(trains) :
        /\ trains[i].state = "arrived"
        /\ trains[i].response = "catch"
        /\ hideLoading
        /\ modelResults' = createMockModelResults(trains[i].modelName, trains[i].target,
                                                  trains[i].modelType)
        /\ resultsOrigin' = "fixture"
        /\ trains' = [trains EXCEPT ![i].state = "done", ![i].errorShown = TRUE]
        /\ UNCHANGED <<dashboardData, dataOrigin, targetOptions, targetNameLabel, loads,
                       lastPost>>
        /\ UNCHANGED presVars
        /\ UNCHANGED storeVars
        /\ UNCHANGED <<uploadVars, previewVars, chartVars>>
        /\ UNCHANGED pageVars

----------------------------------------------------------------------------
(* The dashboard page *)

PresenterIdle ==
    /\ predictions = [actual |-> <<>>, predicted |-> <<>>]
    /\ categoricalView = [rendered |-> FALSE, kind |-> "none", categories |-> <<>>,
                          matrix |-> <<>>, rows |-> <<>>, correct |-> 0, outOf |-> 0]
    /\ featureImportance = [aiTarget |-> FALSE, entries |-> <<>>]
    /\ importanceView = [displayed |-> FALSE, chartShown |-> FALSE, chart |-> <<>>,
                         listShown |-> FALSE, keyFactors |-> <<>>,
                         csvShown |-> FALSE, csv |-> <<>>,
                         listPercent |-> <<>>, tooltipPercent |-> <<>>,
                         metricCards |-> <<>>, csvMetrics |-> <<>>]
    /\ resultData = [is_categorical_target |-> FALSE, metrics |-> <<>>]

\* The page after DOMContentLoaded (lines 4-15): loadData(datasetId) has issued
\* its fetch and setupEventListeners has wired the form and the refresh button.
Init ==
    /\ dashboardData = Undefined
    /\ dataOrigin = "none"
    /\ targetOptions = <<EmptyOption>>
    /\ modelResults = NoResults
    /\ resultsOrigin = "none"
    /\ loadingOverlay = TRUE
    /\ targetNameLabel = ""
    /\ loads = <<NewLoad>>
    /\ trains = <<>>
    /\ lastPost = NoPost
    /\ PresenterIdle
    /\ PageIdle

Next ==
    \/ LoadData
    \/ LoadRespond
    \/ LoadThen
    \/ LoadCatch
    \/ TrainModel
    \/ TrainRespond
    \/ TrainThen
    \/ TrainCatch

Spec == Init /\ [][Next]_vars

----------------------------------------------------------------------------
(* Result presenter: createCategoricalPredictionTable *)

\* uniqueCategories.length <= 10 selects the confusion matrix (line 1270).
MatrixMaxCategories == 10
\* Math.min(actual.length, 20): rows of the sample table (lines 1320, 1334).
SampleRows == 20

Min(a, b) == IF a <= b THEN a ELSE b

\* [...new Set(seq)]: the values of seq in order of first occurrence. The
\* positions of first occurrence are taken in increasing order.
UniqueOf(seq) ==
    LET first == {i \in 1..Len(seq) : \A j \in 1..(i - 1) : seq[j] # seq[i]}
        At(k) == CHOOSE i \in first : Cardinality({j \in first : j < i}) = k - 1
    IN  SubSeq([k \in 1..Cardinality(first) |-> seq[At(k)]], 1, Cardinality(first))

\* A threshold that leaves out the case of exactly ten categories.
UseConfusionMatrixStrict(uniqueCategories) == Len(uniqueCategories) < MatrixMaxCategories

\* The test that selects the confusion matrix, line 1270.
UseConfusionMatrix(uniqueCategories) == Len(uniqueCategories) <= MatrixMaxCategories

\* The loop that fills the matrix, lines 1283-1285: the matrix after its
\* first i rounds.
RECURSIVE FillMatrix(_, _, _, _)
FillMatrix(matrix, actual, predicted, i) ==
    IF i = 0 THEN matrix
    ELSE [FillMatrix(matrix, actual, predicted, i - 1) EXCEPT
              ![actual[i]][predicted[i]] = @ + 1]

\* The matrix initialised with zeros (1275-1280), then filled.
ConfusionMatrix(uniqueCategories, actual, predicted) ==
    LET cats == RangeOf(uniqueCategories)
    IN  FillMatrix([a \in cats |-> [p \in cats |-> 0]], actual, predicted, Len(actual))

\* actual.filter((val, idx) => val === predicted[idx]).length, line 1351.
RECURSIVE MatchesFrom(_, _, _)
MatchesFrom(actual, predicted, i) ==
    IF i > Len(actual) THEN 0
    ELSE (IF actual[i] = predicted[i] THEN 1 ELSE 0) + MatchesFrom(actual, predicted, i + 1)

TotalMatches(actual, predicted) == MatchesFrom(actual, predicted, 1)

\* The rows of the sample table, lines 1334-1343.
SampleTable(actual, predicted) ==
    [i \in 1..Min(Len(actual), SampleRows) |->
        [index |-> i, actual |-> actual[i], predicted |-> predicted[i],
         match |-> actual[i] = predicted[i]]]

NoTable ==
    [rendered |-> FALSE, kind |-> "none", categories |-> <<>>, matrix |-> <<>>,
     rows |-> <<>>, correct |-> 0, outOf |-> 0]

\* What createCategoricalPredictionTable writes into #categorical-predictions:
\* the confusion matrix with its header row, or the accuracy summary
\* ("<correct> correct out of <n>") above the sample table.
createCategoricalPredictionTable(preds) ==
    LET actual == preds.actual
        predicted == preds.predicted
        uniqueCategories == UniqueOf(actual \o predicted)
    IN  IF UseConfusionMatrix(uniqueCategories)
        THEN [rendered |-> TRUE, kind |-> "matrix", categories |-> uniqueCategories,
              matrix |-> ConfusionMatrix(uniqueCategories, actual, predicted),
              rows |-> <<>>, correct |-> 0, outOf |-> 0]
        ELSE [rendered |-> TRUE, kind |-> "sample", categories |-> <<>>, matrix |-> <<>>,
              rows |-> SampleTable(actual, predicted),
              correct |-> TotalMatches(actual, predicted), outOf |-> Len(actual)]

\* Classification results the server can send: n rows whose actual labels
\* cycle through ka classes and whose predicted labels cycle through kp
\* classes, shifted by off. Labels are strings, named here by their number.
PredictionsOf(n, ka, kp, off) ==
    [actual    |-> [i \in 1..n |-> 1 + ((i - 1) % ka)],
     predicted |-> [i \in 1..n |-> 1 + ((i - 1 + off) % kp)]]

PredictionInputs ==
    {PredictionsOf(n, ka, kp, off) :
        n \in 0..MaxRows, ka \in 1..MaxLabels, kp \in 1..MaxLabels, off \in 0..1}

DashboardIdle ==
    /\ dashboardData = Undefined
    /\ dataOrigin = "none"
    /\ targetOptions = <<EmptyOption>>
    /\ modelResults = NoResults
    /\ resultsOrigin = "none"
    /\ loadingOverlay = FALSE
    /\ targetNameLabel = ""
    /\ loads = <<>>
    /\ trains = <<>>
    /\ lastPost = NoPost
    /\ PageIdle

\* A result of which only the part under study is given.
NoResultData == [is_categorical_target |-> FALSE, metrics |-> <<>>]

NoRanking ==
    [displayed |-> FALSE, chartShown |-> FALSE, chart |-> <<>>, listShown |-> FALSE, keyFactors |-> <<>>,
     csvShown |-> FALSE, csv |-> <<>>, listPercent |-> <<>>, tooltipPercent |-> <<>>,
     metricCards |-> <<>>, csvMetrics |-> <<>>]

TableInit ==
    /\ DashboardIdle
    /\ predictions \in PredictionInputs
    /\ categoricalView = NoTable
    /\ featureImportance = [aiTarget |-> FALSE, entries |-> <<>>]
    /\ importanceView = NoRanking
    /\ resultData = NoResultData

\* displayModelResults reaching line 1196 for a categorical target.
RenderCategoricalTable ==
    /\ ~categoricalView.rendered
    /\ categoricalView' = createCategoricalPredictionTable(predictions)
    /\ UNCHANGED <<predictions, featureImportance, importanceView, resultData>>
    /\ UNCHANGED dashVars
    /\ UNCHANGED storeVars
    /\ UNCHANGED <<uploadVars, previewVars, chartVars>>
    /\ UNCHANGED pageVars

TableNext == RenderCategoricalTable

TableSpec == TableInit /\ [][TableNext]_vars

----------------------------------------------------------------------------
(* Result presenter: the feature-importance rankings *)

\* .slice(0, 5) of the key-factor list, line 1151.
KeyFactorCount == 5

\* A comparator that sorts ascending.
CompareAscending(a, b) == a[2] - b[2]

\* (a, b) => b[1] - a[1] on entries [feature, importance] (lines 1150, 1372, 1499).
CompareImportance(a, b) == b[2] - a[2]

\* Array.prototype.sort is stable: an entry goes behind every entry already
\* placed that the comparator does not put after it.
RECURSIVE InsertSorted(_, _, _)
InsertSorted(sorted, e, j) ==
    IF j > Len(sorted) THEN Append(sorted, e)
    ELSE IF CompareImportance(sorted[j], e) > 0
         THEN SubSeq(sorted, 1, j - 1) \o <<e>> \o SubSeq(sorted, j, Len(sorted))
         ELSE InsertSorted(sorted, e, j + 1)

RECURSIVE SortFrom(_, _, _)
SortFrom(entries, i, sorted) ==
    IF i > Len(entries) THEN sorted
    ELSE SortFrom(entries, i + 1, InsertSorted(sorted, entries[i], 1))

\* Object.entries(featureImportance).sort((a, b) => b[1] - a[1])
SortedEntries(entries) == SortFrom(entries, 1, <<>>)

\* Array.prototype.slice(0, k)
Slice0(seq, k) == SubSeq(seq, 1, Min(Len(seq), k))

\* The unit the weights are counted in: a weight w stands for the number
\* w / WeightDen.
WeightDen == 8

\* The integer nearest to num / den, the larger of two equally near ones.
RoundHalfUp(num, den) == (2 * num + den) \div (2 * den)

\* (importance * 100).toFixed(1) (lines 1154 and 1398), in tenths of a percent:
\* the weight is multiplied by 100 and printed with one decimal, nothing else.
PercentShown(weight) == RoundHalfUp(weight * 100 * 10, WeightDen)

\* The percentage printed beside each entry of a ranking.
PercentsOf(ranking) == [i \in 1..Len(ranking) |-> PercentShown(ranking[i][2])]

\* A result's feature_importance as the presenter gets it: absent, or a
\* mapping whose entries are, in key order, <<feature, weight>>; features are
\* named by their position in the mapping, weights are counted in units.
\* aiTarget: target_column contains 'ai' or 'adoption' (line 1145).
ImportanceInputs ==
    {[present |-> FALSE, aiTarget |-> ai, entries |-> <<>>] : ai \in BOOLEAN} \cup
    {[present |-> TRUE, aiTarget |-> ai, entries |-> [i \in 1..n |-> <<i, w[i]>>]] :
        ai \in BOOLEAN, n \in 0..MaxFeatures, w \in [1..MaxFeatures -> 0..MaxWeight]}

RankingInit ==
    /\ DashboardIdle
    /\ predictions = [actual |-> <<>>, predicted |-> <<>>]
    /\ categoricalView = NoTable
    /\ featureImportance \in ImportanceInputs
    /\ importanceView = NoRanking
    /\ resultData = NoResultData

\* displayModelResults: the key-factor list of the insights panel (1145-1156),
\* then createFeatureImportanceChart (1189-1191, 1366-1376).
DisplayModelResults ==
    /\ ~importanceView.displayed
    /\ importanceView' =
         [importanceView EXCEPT
            !.displayed = TRUE,
            !.listShown = featureImportance.aiTarget,
            !.keyFactors = IF featureImportance.aiTarget
                           THEN Slice0(SortedEntries(featureImportance.entries), KeyFactorCount)
                           ELSE <<>>,
            !.chartShown = featureImportance.present,
            !.listPercent = IF featureImportance.aiTarget
                            THEN PercentsOf(Slice0(SortedEntries(featureImportance.entries),
                                                   KeyFactorCount))
                            ELSE <<>>,
            !.chart = IF featureImportance.present
                      THEN SortedEntries(featureImportance.entries)
                      ELSE <<>>,
            !.tooltipPercent = IF featureImportance.present
                               THEN PercentsOf(SortedEntries(featureImportance.entries))
                               ELSE <<>>]
    /\ UNCHANGED <<predictions, categoricalView, featureImportance, resultData>>
    /\ UNCHANGED dashVars
    /\ UNCHANGED storeVars
    /\ UNCHANGED <<uploadVars, previewVars, chartVars>>
    /\ UNCHANGED pageVars

\* exportModelResults: the 'Feature Importance' block of the CSV (1492-1504).
ExportModelResults ==
    /\ ~importanceView.csvShown
    /\ featureImportance.present
    /\ importanceView' =
         [importanceView EXCEPT
            !.csvShown = TRUE,
            !.csv = SortedEntries(featureImportance.entries)]
    /\ UNCHANGED <<predictions, categoricalView, featureImportance, resultData>>
    /\ UNCHANGED dashVars
    /\ UNCHANGED storeVars
    /\ UNCHANGED <<uploadVars, previewVars, chartVars>>
    /\ UNCHANGED pageVars

RankingNext ==
    \/ DisplayModelResults
    \/ ExportModelResults

RankingSpec == RankingInit /\ [][RankingNext]_vars

----------------------------------------------------------------------------
(* Result presenter: a whole ModelResult *)

\* Entries of the results presented in one piece, and rows of their predictions.
MaxPresented == 3

\* A ranking that sorts the entries of the mapping itself.
EntriesRankedInPlace(entries) == SortedEntries(entries)

\* The mapping after Object.entries(mapping).sort(...): Object.entries builds a
\* new array of new [key, value] pairs and sort reorders that array, the one
\* it is called on; the mapping keeps its entries, in their order.
EntriesAfterRanking(entries) == entries

\* The points of the scatter plot: actual.map((value, index) =>
\* ({x: value, y: predicted[index]})), lines 1209-1218.
createPredictionVsActualChart(preds) ==
    [rendered |-> TRUE, kind |-> "scatter", categories |-> <<>>, matrix |-> <<>>,
     rows |-> [i \in 1..Len(preds.actual) |->
                  [index |-> i, actual |-> preds.actual[i],
                   predicted |-> IF i <= Len(preds.predicted) THEN preds.predicted[i] ELSE 0,
                   match |-> FALSE]],
     correct |-> 0, outOf |-> 0]

\* Object.entries(data.metrics).map(([metric, value]) => ...): one card (one
\* CSV line) per metric, in key order (lines 1107-1112, 1488-1490).
MetricLines(metrics) == [i \in 1..Len(metrics) |-> metrics[i]]

MetricInputs ==
    {<<>>,
     <<<<"accuracy", 3>>, <<"precision", 2>>, <<"recall", 2>>, <<"f1_score", 2>>>>,
     <<<<"r2_score", 3>>, <<"mean_absolute_error", 1>>, <<"mean_squared_error", 2>>,
       <<"root_mean_squared_error", 1>>>>}

PresentedImportance ==
    {[present |-> FALSE, aiTarget |-> ai, entries |-> <<>>] : ai \in BOOLEAN} \cup
    {[present |-> TRUE, aiTarget |-> ai, entries |-> [i \in 1..n |-> <<i, w[i]>>]] :
        ai \in BOOLEAN, n \in 0..MaxPresented, w \in [1..MaxPresented -> 0..MaxWeight]}

PresentedPredictions ==
    {PredictionsOf(n, ka, kp, off) :
        n \in 0..MaxPresented, ka \in 1..2, kp \in 1..2, off \in 0..1}

PresentInit ==
    /\ DashboardIdle
    /\ predictions \in PresentedPredictions
    /\ categoricalView = NoTable
    /\ featureImportance \in PresentedImportance
    /\ importanceView = NoRanking
    /\ resultData \in [is_categorical_target : BOOLEAN, metrics : MetricInputs]

\* displayModelResults(data) on a whole result: the metric cards, the
\* key-factor list, createFeatureImportanceChart, then the table or the
\* scatter plot of the predictions; and what it leaves of its argument.
PresentModelResults ==
    /\ ~importanceView.displayed
    /\ importanceView' =
         [importanceView EXCEPT
            !.displayed = TRUE,
            !.metricCards = MetricLines(resultData.metrics),
            !.listShown = featureImportance.aiTarget,
            !.keyFactors = IF featureImportance.aiTarget
                           THEN Slice0(SortedEntries(featureImportance.entries), KeyFactorCount)
                           ELSE <<>>,
            !.listPercent = IF featureImportance.aiTarget
                            THEN PercentsOf(Slice0(SortedEntries(featureImportance.entries),
                                                   KeyFactorCount))
                            ELSE <<>>,
            !.chartShown = featureImportance.present,
            !.chart = IF featureImportance.present
                      THEN SortedEntries(featureImportance.entries)
                      ELSE <<>>,
            !.tooltipPercent = IF featureImportance.present
                               THEN PercentsOf(SortedEntries(featureImportance.entries))
                               ELSE <<>>]
    /\ categoricalView' = IF resultData.is_categorical_target
                          THEN createCategoricalPredictionTable(predictions)
                          ELSE createPredictionVsActualChart(predictions)
    /\ featureImportance' =
         [featureImportance EXCEPT !.entries = EntriesAfterRanking(@)]
    /\ predictions' = predictions
    /\ resultData' = resultData
    /\ UNCHANGED dashVars
    /\ UNCHANGED storeVars
    /\ UNCHANGED <<uploadVars, previewVars, chartVars>>
    /\ UNCHANGED pageVars

\* exportModelResults on a whole result: the metrics lines and the
\* 'Feature Importance' block of the CSV (1486-1504); and what it leaves of
\* window.modelResults.
ExportPresentedResults ==
    /\ ~importanceView.csvShown
    /\ importanceView' =
         [importanceView EXCEPT
            !.csvShown = TRUE,
            !.csvMetrics = MetricLines(resultData.metrics),
            !.csv = IF featureImportance.present
                    THEN SortedEntries(featureImportance.entries)
                    ELSE <<>>]
    /\ featureImportance' =
         [featureImportance EXCEPT
            !.entries = IF featureImportance.present THEN EntriesAfterRanking(@) ELSE @]
    /\ predictions' = predictions
    /\ resultData' = resultData
    /\ UNCHANGED categoricalView
    /\ UNCHANGED dashVars
    /\ UNCHANGED storeVars
    /\ UNCHANGED <<uploadVars, previewVars, chartVars>>
    /\ UNCHANGED pageVars

PresentNext ==
    \/ PresentModelResults
    \/ ExportPresentedResults

PresentSpec == PresentInit /\ [][PresentNext]_vars

----------------------------------------------------------------------------
(* The operations on a stored summary *)

\* Names of the columns of stats with the given type tag, in key order.
ColumnsOfType(stats, t) ==
    LET HasType(c) == c.type = t
        cols == SelectSeq(stats, HasType)
    IN  [i \in 1..Len(cols) |-> cols[i].name]

\* The entry of stats under a key.
StatOf(data, column) == CHOOSE c \in RangeOf(data.stats) : c.name = column

\* A dialog that files its options under the summary it read them from.
SummaryWithScatterCache(data) ==
    [data EXCEPT !.keys = @ \cup {"scatter_options"}]

\* window.dashboardData after populateScatterSelects and createScatterPlot:
\* both read data.stats (Object.keys, stat.type, min, max, value_counts) and
\* assign nothing to it.
SummaryAfterScatter(data) == data

\* populateScatterSelects: numeric columns for the axes, categorical ones for
\* the colour; without stats the selects stay as they are (line 2455).
populateScatterSelects(data, selects) ==
    IF HasStats(data)
    THEN [selects EXCEPT !.xAxis = ColumnsOfType(data.stats, "numeric"),
                         !.yAxis = ColumnsOfType(data.stats, "numeric"),
                         !.colorBy = ColumnsOfType(data.stats, "categorical")]
    ELSE selects

\* The value of a select: one of its options, "" when it has none.
ValuesOf(options) == IF options = <<>> THEN {""} ELSE RangeOf(options)

\* generateMockScatterData: 50 points drawn from the ranges of the two axes,
\* each given one of the categories of the colour column; the view keeps the
\* ranges and the categories the draws are taken from.
generateMockScatterData(data, xAxis, yAxis, colorBy) ==
    [shown |-> TRUE, xAxis |-> xAxis, yAxis |-> yAxis, colorBy |-> colorBy,
     xRange |-> <<StatOf(data, xAxis).min, StatOf(data, xAxis).max>>,
     yRange |-> <<StatOf(data, yAxis).min, StatOf(data, yAxis).max>>,
     categories |-> IF colorBy # "" /\ colorBy \in StatsKeys(data)
                    THEN [j \in 1..Len(StatOf(data, colorBy).value_counts) |->
                             StatOf(data, colorBy).value_counts[j][1]]
                    ELSE <<>>]

\* Summaries GET /api/data can answer with, next to ServerSummaryA: one of a
\* single categorical column.
ServerSummaryB ==
    [defined |-> TRUE,
     keys    |-> {"success", "row_count", "column_count", "stats", "filter_options"},
     row_count |-> 2,
     column_count |-> 1,
     stats   |-> <<CategoricalCol("Level", <<<<"Low", 1>>, <<"High", 1>>>>, 2)>>]

SummaryBodies == {ServerSummaryA, ServerSummaryB, ServerNoStats}

SummaryInit ==
    /\ dashboardData = Undefined
    /\ dataOrigin = "none"
    /\ targetOptions = <<EmptyOption>>
    /\ modelResults = NoResults
    /\ resultsOrigin = "none"
    /\ loadingOverlay = TRUE
    /\ targetNameLabel = ""
    /\ loads = <<>>
    /\ trains = <<>>
    /\ lastPost = NoPost
    /\ PresenterIdle
    /\ PageIdle

\* The refresh button: loadData up to fetch() (18-22).
RefreshSummary ==
    /\ showLoading
    /\ UNCHANGED <<dashboardData, dataOrigin, targetOptions, modelResults, resultsOrigin,
                   targetNameLabel, loads, trains, lastPost>>
    /\ UNCHANGED presVars
    /\ UNCHANGED storeVars
    /\ UNCHANGED <<uploadVars, previewVars, chartVars>>
    /\ UNCHANGED pageVars

\* .then(data => ...) of loadData (29-41) for a body the server answered.
SummaryLoaded ==
    \E body \in SummaryBodies :
        /\ hideLoading
        /\ targetOptions' = displayData(body, targetOptions)
        /\ summaryView' = DisplayedSummary(body, summaryView)
        /\ dashboardData' = body
        /\ dataOrigin' = "server"
        /\ UNCHANGED <<modelResults, resultsOrigin, targetNameLabel, loads, trains, lastPost>>
        /\ UNCHANGED presVars
        /\ UNCHANGED storeVars
        /\ chartWrappers' = DisplayedWrappers(body, chartWrappers)
        /\ UNCHANGED <<uploadVars, previewVars, chartType>>

\* .catch(error => ...) of loadData (42-54).
SummaryFallback ==
    /\ hideLoading
    /\ targetOptions' = displayData(createDummyData, targetOptions)
    /\ summaryView' = DisplayedSummary(createDummyData, summaryView)
    /\ dashboardData' = createDummyData
    /\ dataOrigin' = "fixture"
    /\ UNCHANGED <<modelResults, resultsOrigin, targetNameLabel, loads, trains, lastPost>>
    /\ UNCHANGED presVars
    /\ UNCHANGED storeVars
    /\ chartWrappers' = DisplayedWrappers(createDummyData, chartWrappers)
    /\ UNCHANGED <<uploadVars, previewVars, chartType>>

\* Click on #create-scatter-btn (2407-2413): populateScatterSelects, then the
\* dialog is shown.
OpenScatterDialog ==
    /\ summaryView' =
         [summaryView EXCEPT
            !.scatterSelects =
                [populateScatterSelects(dashboardData, @) EXCEPT !.open = TRUE]]
    /\ dashboardData' = SummaryAfterScatter(dashboardData)
    /\ UNCHANGED <<dataOrigin, targetOptions, modelResults, resultsOrigin, loadingOverlay,
                   targetNameLabel, loads, trains, lastPost>>
    /\ UNCHANGED presVars
    /\ UNCHANGED storeVars
    /\ UNCHANGED <<uploadVars, previewVars, chartVars>>

\* Click on #generate-scatter-btn (2430-2447): the values of the three selects;
\* without both axes an alert and nothing else. createScatterPlot (2502-2572)
\* shows the overlay, reports a summary without stats, and throws at
\* xStat.min (2585) when an axis is no key of the summary now stored: then
\* neither hideLoading nor closeDialog is reached.
GenerateScatter ==
    \E xAxis \in ValuesOf(summaryView.scatterSelects.xAxis),
       yAxis \in ValuesOf(summaryView.scatterSelects.yAxis),
       colorBy \in {""} \cup RangeOf(summaryView.scatterSelects.colorBy) :
        /\ summaryView.scatterSelects.open
        /\ IF xAxis = "" \/ yAxis = ""
           THEN UNCHANGED <<summaryView, loadingOverlay, chartWrappers>>
           ELSE IF ~HasStats(dashboardData)
           THEN /\ hideLoading
                /\ summaryView' = [summaryView EXCEPT !.scatterSelects.open = FALSE]
                /\ UNCHANGED chartWrappers
           ELSE IF {xAxis, yAxis} \subseteq StatsKeys(dashboardData)
           THEN /\ hideLoading
                /\ summaryView' =
                     [summaryView EXCEPT
                        !.scatterPlot =
                            generateMockScatterData(dashboardData, xAxis, yAxis, colorBy),
                        !.scatterSelects.open = FALSE]
                /\ chartWrappers' = WithScatterWrapper(chartWrappers)
           ELSE /\ showLoading
                /\ UNCHANGED summaryView
                /\ chartWrappers' = WithScatterWrapper(chartWrappers)
        /\ dashboardData' = SummaryAfterScatter(dashboardData)
        /\ UNCHANGED <<dataOrigin, targetOptions, modelResults, resultsOrigin,
                       targetNameLabel, loads, trains, lastPost>>
        /\ UNCHANGED presVars
        /\ UNCHANGED storeVars
        /\ UNCHANGED <<uploadVars, previewVars, chartType>>

\* trainModel up to fetch() (977-1021), for the model name 'model1', the type
\* 'RandomForest' and the default test size, one request followed at a time.
SubmitTraining ==
    \E k \in 1..Len(targetOptions), modelType \in {"RandomForest"} :
        LET targetColumn == targetOptions[k].value
        IN  /\ ~summaryView.pendingTrain
            /\ IF targetColumn = ""
               THEN UNCHANGED <<targetNameLabel, loadingOverlay, lastPost, summaryView>>
               ELSE /\ targetNameLabel' = targetColumn
                    /\ showLoading
                    /\ lastPost' = TrainBody("model1", targetColumn, modelType,
                                             [present |-> FALSE, value |-> <<>>])
                    /\ summaryView' = [summaryView EXCEPT !.pendingTrain = TRUE]
            /\ UNCHANGED <<dashboardData, dataOrigin, targetOptions, modelResults,
                           resultsOrigin, loads, trains>>
            /\ UNCHANGED presVars
            /\ UNCHANGED storeVars
            /\ UNCHANGED <<uploadVars, previewVars, chartVars>>

\* The callbacks of trainModel (1023-1044) for the request followed.
TrainingSettled ==
    \E response \in {"success", "failure", "catch"} :
        /\ summaryView.pendingTrain
        /\ hideLoading
        /\ summaryView' = [summaryView EXCEPT !.pendingTrain = FALSE]
        /\ IF response = "success"
           THEN /\ modelResults' = ServerResults(lastPost.target_column, lastPost.model_type)
                /\ resultsOrigin' = "server"
           ELSE IF response = "catch"
           THEN /\ modelResults' = createMockModelResults(lastPost.model_name,
                                                          lastPost.target_column,
                                                          lastPost.model_type)
                /\ resultsOrigin' = "fixture"
           ELSE UNCHANGED <<modelResults, resultsOrigin>>
        /\ UNCHANGED <<dashboardData, dataOrigin, targetOptions, targetNameLabel, loads,
                       trains, lastPost>>
        /\ UNCHANGED presVars
        /\ UNCHANGED storeVars
        /\ UNCHANGED <<uploadVars, previewVars, chartVars>>

\* generateInsights up to fetch() (1740-1763) for a non-empty prompt, one
\* request followed at a time.
GenerateInsights ==
    /\ ~summaryView.pendingInsights
    /\ showLoading
    /\ summaryView' = [summaryView EXCEPT !.pendingInsights = TRUE]
    /\ UNCHANGED <<dashboardData, dataOrigin, targetOptions, modelResults, resultsOrigin,
                   targetNameLabel, loads, trains, lastPost>>
    /\ UNCHANGED presVars
    /\ UNCHANGED storeVars
    /\ UNCHANGED <<uploadVars, previewVars, chartVars>>

\* The callbacks of generateInsights (1764-1779): displayInsights, an error,
\* or displayMockInsights.
InsightsSettled ==
    \E response \in {"success", "failure", "catch"} :
        /\ summaryView.pendingInsights
        /\ hideLoading
        /\ summaryView' =
             [summaryView EXCEPT
                !.pendingInsights = FALSE,
                !.insights = IF response = "success" THEN "server"
                             ELSE IF response = "catch" THEN "mock" ELSE @]
        /\ UNCHANGED <<dashboardData, dataOrigin, targetOptions, modelResults, resultsOrigin,
                       targetNameLabel, loads, trains, lastPost>>
        /\ UNCHANGED presVars
        /\ UNCHANGED storeVars
        /\ UNCHANGED <<uploadVars, previewVars, chartVars>>

SummaryNext ==
    \/ RefreshSummary
    \/ SummaryLoaded
    \/ SummaryFallback
    \/ OpenScatterDialog
    \/ GenerateScatter
    \/ SubmitTraining
    \/ TrainingSettled
    \/ GenerateInsights
    \/ InsightsSettled

SummarySpec == SummaryInit /\ [][SummaryNext]_vars

----------------------------------------------------------------------------
(* createMockModelResults *)

\* The characters of the column names the model uses.
Chars(name) ==
    CASE
            name = "Age" -> <<"A", "g", "e">>
         [] name = "Department" -> <<"D", "e", "p", "a", "r", "t", "m", "e", "n", "t">>
         [] name = "Education" -> <<"E", "d", "u", "c", "a", "t", "i", "o", "n">>
         [] name = "Salary" -> <<"S", "a", "l", "a", "r", "y">>
         [] name = "Level" -> <<"L", "e", "v", "e", "l">>
         [] name = "Email" -> <<"E", "m", "a", "i", "l">>
         [] name = "Adoption_Status" -> <<"A", "d", "o", "p", "t", "i", "o", "n", "_", "S", "t", "a", "t", "u", "s">>
         [] name = "Skill_Level" -> <<"S", "k", "i", "l", "l", "_", "L", "e", "v", "e", "l">>
         [] name = "Familiarity" -> <<"F", "a", "m", "i", "l", "i", "a", "r", "i", "t", "y">>
         [] name = "Rating" -> <<"R", "a", "t", "i", "n", "g">>
         [] OTHER -> <<>>

\* String.prototype.toLowerCase, for the letters A to Z.
LowerOf(c) ==
    CASE
            c = "A" -> "a"
         [] c = "B" -> "b"
         [] c = "C" -> "c"
         [] c = "D" -> "d"
         [] c = "E" -> "e"
         [] c = "F" -> "f"
         [] c = "G" -> "g"
         [] c = "H" -> "h"
         [] c = "I" -> "i"
         [] c = "J" -> "j"
         [] c = "K" -> "k"
         [] c = "L" -> "l"
         [] c = "M" -> "m"
         [] c = "N" -> "n"
         [] c = "O" -> "o"
         [] c = "P" -> "p"
         [] c = "Q" -> "q"
         [] c = "R" -> "r"
         [] c = "S" -> "s"
         [] c = "T" -> "t"
         [] c = "U" -> "u"
         [] c = "V" -> "v"
         [] c = "W" -> "w"
         [] c = "X" -> "x"
         [] c = "Y" -> "y"
         [] c = "Z" -> "z"
         [] OTHER -> c

toLowerCase(chars) == SubSeq([i \in 1..Len(chars) |-> LowerOf(chars[i])], 1, Len(chars))

\* String.prototype.includes
Includes(chars, part) ==
    \E i \in 1..(Len(chars) - Len(part) + 1) : SubSeq(chars, i, i + Len(part) - 1) = part

\* targetColumn.toLowerCase().includes(word)
NameIncludes(targetColumn, word) == Includes(toLowerCase(Chars(targetColumn)), word)

\* isAIAdoption, lines 1526-1527.
isAIAdoption(targetColumn) ==
    \/ NameIncludes(targetColumn, <<"a", "i">>)
    \/ NameIncludes(targetColumn, <<"a", "d", "o", "p", "t", "i", "o", "n">>)

\* mightBeCategorical, lines 1530-1536.
mightBeCategorical(targetColumn) ==
    \E word \in {<<"l", "e", "v", "e", "l">>,
                 <<"c", "a", "t", "e", "g", "o", "r", "y">>,
                 <<"t", "y", "p", "e">>,
                 <<"c", "l", "a", "s", "s">>,
                 <<"r", "a", "t", "i", "n", "g">>,
                 <<"s", "t", "a", "t", "u", "s">>,
                 <<"f", "a", "m", "i", "l", "i", "a", "r", "i", "t", "y">>} :
        NameIncludes(targetColumn, word)

\* The metrics object of a regression, four entries in key order; numbers are
\* written in thousandths.
RegressionMetrics(r2, mae, mse, rmse) ==
    <<<<"r2_score", r2>>, <<"mean_absolute_error", mae>>,
      <<"mean_squared_error", mse>>, <<"root_mean_squared_error", rmse>>>>

\* metrics as first assigned, by target and model type (lines 1539-1603).
MockRegressionMetrics(targetColumn, modelType) ==
    IF isAIAdoption(targetColumn)
    THEN IF modelType = "LinearRegression" THEN RegressionMetrics(760, 110, 32, 180)
         ELSE IF modelType = "RandomForest" THEN RegressionMetrics(850, 85, 26, 160)
         ELSE IF modelType = "GradientBoosting" THEN RegressionMetrics(880, 78, 22, 150)
         ELSE RegressionMetrics(820, 92, 28, 170)
    ELSE IF modelType = "LinearRegression" THEN RegressionMetrics(680, 8950, 125600, 11210)
         ELSE IF modelType = "RandomForest" THEN RegressionMetrics(820, 6450, 64300, 8020)
         ELSE IF modelType = "GradientBoosting" THEN RegressionMetrics(840, 5830, 58700, 7660)
         ELSE RegressionMetrics(750, 7220, 85100, 9230)

\* A mock that leaves the regression metrics on a categorical target.
MockClassificationMetricsKept ==
    RegressionMetrics(750, 7220, 85100, 9230)

\* metrics as assigned again for a categorical target (lines 1676-1681).
MockClassificationMetrics ==
    <<<<"accuracy", 760>>, <<"precision", 740>>, <<"recall", 730>>, <<"f1_score", 730>>>>

\* categories, by target (lines 1635-1648).
MockCategories(targetColumn) ==
    IF NameIncludes(targetColumn, <<"f", "a", "m", "i", "l", "i", "a", "r", "i", "t", "y">>)
    THEN <<"Not familiar at all", "Slightly familiar", "Moderately familiar",
           "Very familiar", "Extremely familiar">>
    ELSE IF NameIncludes(targetColumn, <<"a", "d", "o", "p", "t", "i", "o", "n">>)
    THEN <<"Not adopted", "Planning to adopt", "Early adoption", "Partial adoption",
           "Full adoption">>
    ELSE IF NameIncludes(targetColumn, <<"l", "e", "v", "e", "l">>)
    THEN <<"Beginner", "Intermediate", "Advanced", "Expert">>
    ELSE <<"Low", "Medium", "High">>

\* A mapping that numbers the categories from 1.
TargetMappingFromOne(categories) ==
    [i \in 1..Len(categories) |-> <<categories[i], i>>]

\* Object.fromEntries(categories.map((cat, idx) => [cat, idx])): entries
\* <<label, index>> in key order (the category lists hold no label twice).
TargetMapping(categories) ==
    [i \in 1..Len(categories) |-> <<categories[i], i - 1>>]

\* Rows of the mock predictions: sampleSize (1653), predictionCount (1686).
MockSampleSize == 50

\* Math.random(): the draws are the numbers n / RandomDen, 0 <= n < RandomDen,
\* and a run of draws repeats a sequence of RandomPeriod of them.
RandomDen == 4
RandomPeriod == 3
RandomDraws == [1..RandomPeriod -> 0..(RandomDen - 1)]

\* The draw after d earlier ones.
Draw(random, d) == random[(d % RandomPeriod) + 1]

\* Math.floor(Math.random() * n)
RandomIndex(draw, n) == (draw * n) \div RandomDen

\* array.filter(c => c !== value)
Without(seq, value) ==
    LET Other(c) == c # value IN SelectSeq(seq, Other)

\* The loop of the categorical mock (1657-1671) from row i on, after d draws:
\* a random category as the actual value; with probability 0.7 the same as
\* the predicted one, else a random one of the others.
RECURSIVE MockCategoricalRows(_, _, _, _, _, _)
MockCategoricalRows(categories, random, i, d, actual, predicted) ==
    IF i >= MockSampleSize THEN [actual |-> actual, predicted |-> predicted]
    ELSE LET actualCat == categories[RandomIndex(Draw(random, d), Len(categories)) + 1]
             otherCats == Without(categories, actualCat)
         IN  IF 10 * Draw(random, d + 1) < 7 * RandomDen
             THEN MockCategoricalRows(categories, random, i + 1, d + 2,
                                      Append(actual, actualCat), Append(predicted, actualCat))
             ELSE MockCategoricalRows(categories, random, i + 1, d + 3,
                                      Append(actual, actualCat),
                                      Append(predicted,
                                             otherCats[RandomIndex(Draw(random, d + 2),
                                                                   Len(otherCats)) + 1]))

Max(a, b) == IF a >= b THEN a ELSE b

\* The loop of the numeric mock (1691-1700), values in thousandths:
\* Math.max(0, mean + (random - 0.5) * std * 2), then the same plus the noise
\* (random - 0.5) * std * 0.4.
RECURSIVE MockNumericRows(_, _, _, _, _, _)
MockNumericRows(mean, std, random, i, actual, predicted) ==
    IF i >= MockSampleSize THEN [actual |-> actual, predicted |-> predicted]
    ELSE LET first == Draw(random, 2 * i)
             second == Draw(random, 2 * i + 1)
             actualValue == Max(0, mean + ((2 * first - RandomDen) * std) \div RandomDen)
             noise == ((2 * second - RandomDen) * std * 2) \div (10 * RandomDen)
         IN  MockNumericRows(mean, std, random, i + 1,
                             Append(actual, actualValue),
                             Append(predicted, Max(0, actualValue + noise)))

\* featureImportance (1606-1626), weights in thousandths.
MockFeatureImportance(targetColumn) ==
    IF isAIAdoption(targetColumn)
    THEN <<<<"Technical_Infrastructure", 280>>, <<"Management_Support", 230>>,
           <<"Budget_Allocation", 180>>, <<"Staff_Skills", 150>>,
           <<"Industry_Competition", 90>>, <<"Previous_Tech_Adoption", 70>>>>
    ELSE <<<<"Age", 180>>, <<"Department", 120>>, <<"Education", 250>>, <<"Salary", 190>>,
           <<"Years_Experience", 140>>, <<"Performance_Score", 120>>>>

\* createMockModelResults as a whole (1521-1719), for the draws Math.random
\* gives: the fields of createMockModelResults above, and metrics,
\* feature_importance, predictions, is_categorical_target, target_mapping.
MockModelResults(modelName, targetColumn, modelType, random) ==
    LET head == createMockModelResults(modelName, targetColumn, modelType)
        isCategoricalTarget == mightBeCategorical(targetColumn)
        categories == MockCategories(targetColumn)
        targetMapping == IF isCategoricalTarget THEN TargetMapping(categories) ELSE <<>>
        rows == IF isCategoricalTarget
                THEN MockCategoricalRows(categories, random, 0, 0, <<>>, <<>>)
                ELSE MockNumericRows(IF isAIAdoption(targetColumn) THEN 500 ELSE 50000,
                                     IF isAIAdoption(targetColumn) THEN 250 ELSE 20000,
                                     random, 0, <<>>, <<>>)
    IN  [defined |-> head.defined,
         target_column |-> head.target_column,
         model_type |-> head.model_type,
         keys |-> head.keys,
         metrics |-> IF isCategoricalTarget THEN MockClassificationMetrics
                     ELSE MockRegressionMetrics(targetColumn, modelType),
         feature_importance |-> MockFeatureImportance(targetColumn),
         predictions |-> [actual |-> rows.actual, predicted |-> rows.predicted,
                          has_categorical_mapping |-> isCategoricalTarget,
                          categorical_mapping |-> targetMapping],
         is_categorical_target |-> isCategoricalTarget,
         target_mapping |-> targetMapping]

\* Targets and model types the mock is built for.
MockTargets == {"Age", "Department", "Level", "Email", "Adoption_Status", "Skill_Level",
                "Familiarity", "Rating"}
MockModelTypes == {"LinearRegression", "RandomForest", "GradientBoosting", "SVM"}

\* A training request is in flight.
MockInit ==
    /\ dashboardData = Undefined
    /\ dataOrigin = "none"
    /\ targetOptions = <<EmptyOption>>
    /\ modelResults = NoResults
    /\ resultsOrigin = "none"
    /\ loadingOverlay = TRUE
    /\ \E targetColumn \in MockTargets, modelType \in MockModelTypes :
          /\ targetNameLabel = targetColumn
          /\ lastPost = TrainBody("model1", targetColumn, modelType,
                                  [present |-> FALSE, value |-> <<>>])
    /\ loads = <<>>
    /\ trains = <<>>
    /\ PresenterIdle
    /\ PageIdle

\* .catch(error => ...) of trainModel (1034-1044) with the mock it builds.
TrainCatchMock ==
    \E random \in RandomDraws :
        /\ loadingOverlay
        /\ hideLoading
        /\ modelResults' = MockModelResults(lastPost.model_name, lastPost.target_column,
                                            lastPost.model_type, random)
        /\ resultsOrigin' = "fixture"
        /\ UNCHANGED <<dashboardData, dataOrigin, targetOptions, targetNameLabel, loads,
                       trains, lastPost>>
        /\ UNCHANGED presVars
        /\ UNCHANGED storeVars
        /\ UNCHANGED <<uploadVars, previewVars, chartVars>>
        /\ UNCHANGED pageVars

MockNext == TrainCatchMock

MockSpec == MockInit /\ [][MockNext]_vars

----------------------------------------------------------------------------
(* The mock model store: operations *)

\* array.filter(model => model.model_id !== modelId)
WithoutId(models, modelId) ==
    LET Other(model) == model.model_id # modelId IN SelectSeq(models, Other)

\* A removal that takes out the first model of that identifier only.
RemoveFirstMatch(item, modelId) ==
    LET models == getMockSavedModels(item)
        hits == {i \in 1..Len(models) : models[i].model_id = modelId}
        first == IF hits = {} THEN 0 ELSE CHOOSE i \in hits : \A j \in hits : i <= j
    IN  [present |-> TRUE,
         text |-> JSONStringify(IF first = 0 THEN models
                                ELSE SubSeq(models, 1, first - 1) \o
                                     SubSeq(models, first + 1, Len(models)))]

\* removeMockSavedModel (2917-2921): the item after the call.
removeMockSavedModel(item, modelId) ==
    [present |-> TRUE,
     text |-> JSONStringify(WithoutId(getMockSavedModels(item), modelId))]

StoreInit ==
    /\ DashboardIdle
    /\ PresenterIdle

\* addMockSavedModel(model) (2907-2914): push on the parsed list, setItem,
\* then displaySavedModels of the list in memory.
AddMockSavedModel ==
    \E model \in StoredModels :
        LET models == Append(getMockSavedModels(mockSavedModels), model)
        IN  /\ Len(models) <= MaxStored
            /\ mockSavedModels' = [present |-> TRUE, text |-> JSONStringify(models)]
            /\ savedModelsView' = models
            /\ storeCall' = [op |-> "add", id |-> model.model_id, model |-> model,
                             before |-> getMockSavedModels(mockSavedModels),
                             deletesBefore |-> Len(deletes)]
            /\ UNCHANGED deletes
            /\ UNCHANGED <<dashVars, presVars, pageVars>>
            /\ UNCHANGED <<uploadVars, previewVars, chartVars>>

\* .catch of loadSavedModels (2704-2714): the mock list is displayed.
LoadSavedModelsCatch ==
    /\ savedModelsView' = getMockSavedModels(mockSavedModels)
    /\ UNCHANGED <<mockSavedModels, storeCall, deletes>>
    /\ UNCHANGED <<dashVars, presVars, pageVars>>
    /\ UNCHANGED <<uploadVars, previewVars, chartVars>>

\* Click on a row's delete button: deleteModel(model.model_id) up to fetch()
\* (2855-2864); confirm() answers either way.
DeleteModel ==
    \E k \in 1..Len(savedModelsView), confirmed \in BOOLEAN :
        LET modelId == savedModelsView[k].model_id
        IN  /\ confirmed => Len(deletes) < MaxDeletes
            /\ storeCall' = [op |-> IF confirmed THEN "delete" ELSE "declined",
                             id |-> modelId, model |-> NoStoreCall.model,
                             before |-> IF confirmed THEN <<>>
                                        ELSE getMockSavedModels(mockSavedModels),
                             deletesBefore |-> Len(deletes)]
            /\ IF confirmed
               THEN /\ showLoading
                    /\ deletes' = Append(deletes, [id |-> modelId, state |-> "inflight",
                                                   response |-> "none"])
               ELSE UNCHANGED <<loadingOverlay, deletes>>
            /\ UNCHANGED <<mockSavedModels, savedModelsView>>
            /\ UNCHANGED <<dashboardData, dataOrigin, targetOptions, modelResults,
                           resultsOrigin, targetNameLabel, loads, trains, lastPost>>
            /\ UNCHANGED <<presVars, pageVars>>
            /\ UNCHANGED <<uploadVars, previewVars, chartVars>>

\* The network settles a DELETE: JSON with success true or false, or a
\* rejection (also of response.json()). A request keeps its response until its
\* callback has run.
DeleteRespond ==
    \E i \in 1..Len(deletes), response \in {"success", "failure", "catch"} :
        /\ deletes[i].state = "inflight"
        /\ deletes' = [deletes EXCEPT ![i].state = "arrived", ![i].response = response]
        /\ UNCHANGED <<mockSavedModels, savedModelsView, storeCall>>
        /\ UNCHANGED <<dashVars, presVars, pageVars>>
        /\ UNCHANGED <<uploadVars, previewVars, chartVars>>

\* .then(data => ...) of deleteModel (2870-2877): the list is asked for again
\* (loadSavedModels), or the error is shown.
DeleteThen ==
    \E i \in 1..Len(deletes) :
        /\ deletes[i].state = "arrived"
        /\ deletes[i].response \in {"success", "failure"}
        /\ hideLoading
        /\ deletes' = [deletes EXCEPT ![i].state = "done", ![i].response = "none"]
        /\ UNCHANGED <<mockSavedModels, savedModelsView, storeCall>>
        /\ UNCHANGED <<dashboardData, dataOrigin, targetOptions, modelResults,
                       resultsOrigin, targetNameLabel, loads, trains, lastPost>>
        /\ UNCHANGED <<presVars, pageVars>>
        /\ UNCHANGED <<uploadVars, previewVars, chartVars>>

\* .catch(error => ...) of deleteModel (2878-2890): removeMockSavedModel, then
\* the list read back is displayed.
DeleteCatch ==
    \E i \in 1..Len(deletes) :
        /\ deletes[i].state = "arrived"
        /\ deletes[i].response = "catch"
        /\ hideLoading
        /\ mockSavedModels' = removeMockSavedModel(mockSavedModels, deletes[i].id)
        /\ savedModelsView' = getMockSavedModels(mockSavedModels')
        /\ storeCall' = [op |-> "remove", id |-> deletes[i].id, model |-> NoStoreCall.model,
                         before |-> getMockSavedModels(mockSavedModels),
                         deletesBefore |-> Len(deletes)]
        /\ deletes' = [deletes EXCEPT ![i].state = "done", ![i].response = "none"]
        /\ UNCHANGED <<dashboardData, dataOrigin, targetOptions, modelResults,
                       resultsOrigin, targetNameLabel, loads, trains, lastPost>>
        /\ UNCHANGED <<presVars, pageVars>>
        /\ UNCHANGED <<uploadVars, previewVars, chartVars>>

StoreNext ==
    \/ AddMockSavedModel
    \/ LoadSavedModelsCatch
    \/ DeleteModel
    \/ DeleteRespond
    \/ DeleteThen
    \/ DeleteCatch

StoreSpec == StoreInit /\ [][StoreNext]_vars

----------------------------------------------------------------------------
(* The upload page: templates/upload.html *)

\* A submission that reached fetch().
NewUpload == [state |-> "inflight", response |-> "none", hasError |-> FALSE]

\* The change handler of #file (78-91): a file was chosen, or the choice was
\* cancelled.
SelectFile ==
    \E chosen \in BOOLEAN :
        /\ uploadPage.location = "upload"
        /\ uploadPage' = [uploadPage EXCEPT !.fileChosen = chosen]
        /\ UNCHANGED uploads
        /\ UNCHANGED <<dashVars, presVars, pageVars, storeVars, previewVars, chartVars>>

\* The submit handler of #upload-form up to fetch() (94-117). The browser
\* raises the event from the submit button only: not while the button is
\* disabled, and not while the required file input is empty.
SubmitUpload ==
    /\ uploadPage.location = "upload"
    /\ ~uploadPage.submitDisabled
    /\ uploadPage.fileChosen
    /\ Len(uploads) < MaxUploads
    /\ uploadPage' = [uploadPage EXCEPT !.overlay = TRUE, !.errorShown = FALSE,
                                        !.submitDisabled = TRUE]
    /\ uploads' = Append(uploads, NewUpload)
    /\ UNCHANGED <<dashVars, presVars, pageVars, storeVars, previewVars, chartVars>>

\* What the server and the network can do with the POST: a redirect that
\* fetch followed, JSON with success true and a redirect_url, with a
\* dataset_id only, with neither, JSON with success false (with or without an
\* error text), a body that is not JSON, a rejected fetch.
UploadOutcomes ==
    {"redirect", "redirect_url", "dataset_id", "neither", "failure", "nonjson", "network"}
UploadCallback(outcome) == IF outcome \in {"nonjson", "network"} THEN "catch" ELSE "then"

UploadRespond ==
    \E i \in 1..Len(uploads), o \in UploadOutcomes, hasError \in BOOLEAN :
        /\ uploads[i].state = "inflight"
        /\ hasError => o = "failure"
        /\ uploads' = [uploads EXCEPT ![i].state = "arrived", ![i].response = o,
                                      ![i].hasError = hasError]
        /\ UNCHANGED uploadPage
        /\ UNCHANGED <<dashVars, presVars, pageVars, storeVars, previewVars, chartVars>>

\* The two .then callbacks (118-150): window.location.href is assigned for a
\* redirect, a redirect_url or a dataset_id; success without either does
\* nothing; success false shows the error, hides the overlay and resets the
\* button.
UploadThen ==
    \E i \in 1..Len(uploads) :
        /\ uploads[i].state = "arrived"
        /\ UploadCallback(uploads[i].response) = "then"
        /\ uploadPage.location = "upload"
        /\ uploadPage' =
             CASE uploads[i].response = "redirect" ->
                    [uploadPage EXCEPT !.location = "response.url"]
               [] uploads[i].response = "redirect_url" ->
                    [uploadPage EXCEPT !.location = "redirect_url"]
               [] uploads[i].response = "dataset_id" ->
                    [uploadPage EXCEPT !.location = "/dashboard/dataset_id"]
               [] uploads[i].response = "neither" -> uploadPage
               [] OTHER ->
                    [uploadPage EXCEPT !.errorText = IF uploads[i].hasError THEN "data.error"
                                                     ELSE "An error occurred during upload.",
                                       !.errorShown = TRUE, !.overlay = FALSE,
                                       !.submitDisabled = FALSE]
        /\ uploads' = [uploads EXCEPT ![i].state = "done"]
        /\ UNCHANGED <<dashVars, presVars, pageVars, storeVars, previewVars, chartVars>>

\* The .catch (151-164).
UploadCatch ==
    \E i \in 1..Len(uploads) :
        /\ uploads[i].state = "arrived"
        /\ UploadCallback(uploads[i].response) = "catch"
        /\ uploadPage.location = "upload"
        /\ uploadPage' = [uploadPage EXCEPT
                            !.errorText = "Network error occurred. Please try again.",
                            !.errorShown = TRUE, !.overlay = FALSE,
                            !.submitDisabled = FALSE]
        /\ uploads' = [uploads EXCEPT ![i].state = "done"]
        /\ UNCHANGED <<dashVars, presVars, pageVars, storeVars, previewVars, chartVars>>

UploadInit ==
    /\ DashboardIdle
    /\ PresenterIdle

UploadNext ==
    \/ SelectFile
    \/ SubmitUpload
    \/ UploadRespond
    \/ UploadThen
    \/ UploadCatch

UploadSpec == UploadInit /\ [][UploadNext]_vars

\* The callbacks run once their response is there.
UploadFairSpec ==
    /\ UploadInit
    /\ [][UploadNext]_vars
    /\ WF_vars(UploadThen)
    /\ WF_vars(UploadCatch)

----------------------------------------------------------------------------
(* The chart filter *)

\* Values of the options of #chart-type.
ChartTypes == {"all", "numeric", "categorical"}

\* filterCharts (1727-1737): style.display of every .chart-wrapper in the
\* document at the time of the call.
filterCharts(wrappers, type) ==
    [i \in 1..Len(wrappers) |->
        [wrappers[i] EXCEPT !.display = IF type = "all" \/ wrappers[i].type = type
                                        THEN "" ELSE "none"]]

\* The change handler of #chart-type (930-935): another option was selected.
ChartTypeChange ==
    \E type \in ChartTypes \ {chartType} :
        /\ chartType' = type
        /\ chartWrappers' = filterCharts(chartWrappers, type)
        /\ UNCHANGED <<dashVars, presVars, pageVars, storeVars, uploadVars, previewVars>>

\* The page with its summary, scatter dialog and chart filter.
ChartNext ==
    \/ RefreshSummary
    \/ SummaryLoaded
    \/ SummaryFallback
    \/ OpenScatterDialog
    \/ GenerateScatter
    \/ ChartTypeChange

ChartSpec == SummaryInit /\ [][ChartNext]_vars

----------------------------------------------------------------------------
(* The data preview: values *)

\* A cell of a preview row: a string (its characters), a number, a boolean or
\* null, as JSON gives them.
Str(chars) == [t |-> "string", chars |-> chars, n |-> 0, b |-> FALSE]
Num(n) == [t |-> "number", chars |-> <<>>, n |-> n, b |-> FALSE]
Bool(b) == [t |-> "boolean", chars |-> <<>>, n |-> 0, b |-> b]
Null == [t |-> "null", chars |-> <<>>, n |-> 0, b |-> FALSE]

\* String(n) for the integers 0..99.
Digit(d) == CASE d = 0 -> "0" [] d = 1 -> "1" [] d = 2 -> "2" [] d = 3 -> "3" [] d = 4 -> "4"
              [] d = 5 -> "5" [] d = 6 -> "6" [] d = 7 -> "7" [] d = 8 -> "8" [] OTHER -> "9"
NumberChars(n) == IF n < 10 THEN <<Digit(n)>> ELSE <<Digit(n \div 10), Digit(n % 10)>>

\* String(value)
StringOf(cell) ==
    CASE cell.t = "string" -> cell.chars
      [] cell.t = "number" -> NumberChars(cell.n)
      [] cell.t = "boolean" -> IF cell.b THEN <<"t", "r", "u", "e">>
                               ELSE <<"f", "a", "l", "s", "e">>
      [] OTHER -> <<"n", "u", "l", "l">>

\* What the table shows for a cell (171): `${cell !== null ? cell : '-'}`.
RenderedCell(cell) == IF cell.t = "null" THEN <<"-">> ELSE StringOf(cell)

\* A value that || replaces: null, 0, false and the empty string.
Falsy(cell) ==
    \/ cell.t = "null"
    \/ cell.t = "number" /\ cell.n = 0
    \/ cell.t = "boolean" /\ ~cell.b
    \/ cell.t = "string" /\ cell.chars = <<>>

\* String(cell || '')
SearchedCell(cell) == IF Falsy(cell) THEN <<>> ELSE StringOf(cell)

\* String.prototype.trim, for strings padded with spaces.
RECURSIVE TrimStart(_)
TrimStart(chars) ==
    IF chars # <<>> /\ Head(chars) = " " THEN TrimStart(Tail(chars)) ELSE chars
RECURSIVE TrimEnd(_)
TrimEnd(chars) ==
    IF chars # <<>> /\ chars[Len(chars)] = " "
    THEN TrimEnd(SubSeq(chars, 1, Len(chars) - 1))
    ELSE chars
TrimChars(chars) == TrimEnd(TrimStart(chars))

\* rowsPerPage of window.previewPagination (218); line 219 divides by the same 10.
RowsPerPage == 10

\* Math.ceil(n / 10)
CeilPages(n) == (n + RowsPerPage - 1) \div RowsPerPage

\* Previews GET /api/data-preview can answer with. One of a single text
\* column and PreviewRows rows: a row's text holds "a" for the first MatchA
\* rows and "c" for the first MatchC, so that the searches for those letters
\* match three pages and less than a page of rows.
PreviewRows == 25
MatchA == 22
MatchC == 4
LargeText(i) ==
    IF i <= MatchC THEN <<"A", "b", "c">>
    ELSE IF i <= MatchA THEN <<"a", "B">>
    ELSE <<"d">>
PreviewLarge ==
    [columns |-> <<"Text">>,
     rows |-> [i \in 1..PreviewRows |-> <<Str(LargeText(i))>>]]

\* One of two columns whose cells take the values 0, false, null and the
\* empty string.
PreviewMixed ==
    [columns |-> <<"Value", "Text">>,
     rows |-> <<<<Num(0), Str(<<"A", "b">>)>>,
                <<Bool(FALSE), Str(<<>>)>>,
                <<Null, Str(<<"b", "-">>)>>>>]

\* One without rows.
PreviewEmpty == [columns |-> <<"Text">>, rows |-> <<>>]

\* The names of those previews: what a response carries.
PreviewBodies == {"large", "mixed", "empty"}

\* dummyPreview of loadDummyDataPreview (340-391): eleven columns, seven rows
\* of strings.
DummyPreview ==
    [columns |-> <<
        "Email", "Level of study", "Faculty", "AI familiarity", "Used AI tools", "Tools used",
        "Usage frequency", "Challenges", "Helpful tools needed", "Improves learning?",
        "Suggestions">>,
     rows |-> <<
      <<Str(<<
            "c", "a", "m", "e", "r", "o", "n", ".", "g", "r", "a", "h", "a", "m", "@", "g",
            "m", "a", "i", "l", ".", "c", "o", "m">>),
        Str(<<
            "U", "n", "d", "e", "r", "g", "r", "a", "d", "u", "a", "t", "e">>),
        Str(<<
            "B", "u", "s", "i", "n", "e", "s", "s">>),
        Str(<<
            "N", "o", "t", " ", "f", "a", "m", "i", "l", "i", "a", "r", " ", "a", "t", " ",
            "a", "l", "l">>),
        Str(<<
            "U", "n", "k", "n", "o", "w", "n">>),
        Str(<<
            "U", "n", "k", "n", "o", "w", "n">>),
        Str(<<
            "1">>),
        Str(<<
            "T", "e", "c", "h", "n", "i", "c", "a", "l", " ", "i", "s", "s", "u", "e", "s",
            " ", "w", "i", "t", "h", " ", "t", "o", "o", "l", "s", "/", "p", "l", "a", "t",
            "f", "o", "r", "m", "s", ",", " ", "L", "a", "c", "k", " ", "o", "f", " ", "t",
            "r", "a", "i", "n", "i", "n", "g", " ", "o", "n", " ", "h", "o", "w", " ", "t",
            "o", " ", "u", "s", "e", " ", "A", "I", " ", "t", "o", "o", "l", "s">>),
        Str(<<
            "N", "L", "P", "-", "p", "o", "w", "e", "r", "e", "d", " ", "p", "l", "a", "g",
            "i", "a", "r", "i", "s", "m", " ", "d", "e", "t", "e", "c", "t", "i", "o", "n",
            " ", "s", "y", "s", "t", "e", "m">>),
        Str(<<
            "Y", "e", "s">>),
        Str(<<
            "C", "r", "e", "a", "t", "e", " ", "E", "n", "g", "i", "n", "e", "e", "r", "i",
            "n", "g", " ", "f", "u", "n", "d", "a", "m", "e", "n", "t", "a", "l", "s", "-",
            "s", "p", "e", "c", "i", "f", "i", "c", " ", "m", "o", "d", "e", "l", " ", "u",
            "s", "i", "n", "g", " ", "G", "r", "a", "p", "h", " ", "N", "e", "u", "r", "a",
            "l", " ", "N", "e", "t", "w", "o", "r", "k", "s", " ", "t", "h", "a", "t", " ",
            "e", "n", "a", "b", "l", "e", "s", " ", "r", "e", "s", "o", "u", "r", "c", "e",
            " ", "r", "e", "c", "o", "m", "m", "e", "n", "d", "a", "t", "i", "o", "n">>)>>,
      <<Str(<<
            "r", "o", "g", "e", "r", ".", "s", "m", "i", "t", "h", "@", "g", "m", "a", "i",
            "l", ".", "c", "o", "m">>),
        Str(<<
            "U", "n", "d", "e", "r", "g", "r", "a", "d", "u", "a", "t", "e">>),
        Str(<<
            "B", "u", "s", "i", "n", "e", "s", "s">>),
        Str(<<
            "S", "o", "m", "e", "w", "h", "a", "t", " ", "f", "a", "m", "i", "l", "i", "a", "r">>),
        Str(<<
            "G", "r", "a", "m", "m", "a", "r", "l", "y">>),
        Str(<<
            "G", "r", "a", "m", "m", "a", "r", "l", "y">>),
        Str(<<
            "2">>),
        Str(<<
            "U", "n", "k", "n", "o", "w", "n">>),
        Str(<<
            "k", "n", "o", "w", "l", "e", "d", "g", "e", " ", "g", "r", "a", "p", "h", "s",
            "-", "p", "o", "w", "e", "r", "e", "d", " ", "c", "o", "n", "c", "e", "p", "t",
            " ", "v", "i", "s", "u", "a", "l", "i", "z", "a", "t", "i", "o", "n", " ", "s",
            "y", "s", "t", "e", "m">>),
        Str(<<
            "N", "o">>),
        Str(<<
            "D", "e", "v", "e", "l", "o", "p", " ", "T", "i", "m", "e", "-", "s", "e", "r",
            "i", "e", "s", " ", "a", "n", "a", "l", "y", "s", "i", "s", " ", "t", "o", " ",
            "p", "r", "e", "d", "i", "c", "t", " ", "e", "n", "g", "a", "g", "e", "m", "e",
            "n", "t", " ", "l", "e", "v", "e", "l", "s", " ", "i", "n", " ", "E", "n", "g",
            "i", "n", "e", "e", "r", "i", "n", "g", " ", "f", "u", "n", "d", "a", "m", "e",
            "n", "t", "a", "l", "s", " ", "f", "o", "r", " ", "a", "d", "a", "p", "t", "i",
            "v", "e", " ", "t", "e", "s", "t", "i", "n", "g">>)>>,
      <<Str(<<
            "j", "o", "n", "a", "t", "h", "a", "n", "3", "1", "@", "g", "m", "a", "i", "l",
            ".", "c", "o", "m">>),
        Str(<<
            "U", "n", "d", "e", "r", "g", "r", "a", "d", "u", "a", "t", "e">>),
        Str(<<
            "B", "u", "s", "i", "n", "e", "s", "s">>),
        Str(<<
            "N", "o", "t", " ", "f", "a", "m", "i", "l", "i", "a", "r", " ", "a", "t", " ",
            "a", "l", "l">>),
        Str(<<
            "U", "n", "k", "n", "o", "w", "n">>),
        Str(<<
            "U", "n", "k", "n", "o", "w", "n">>),
        Str(<<
            "1">>),
        Str(<<
            "U", "n", "k", "n", "o", "w", "n">>),
        Str(<<
            "r", "e", "i", "n", "f", "o", "r", "c", "e", "m", "e", "n", "t", " ", "l", "e",
            "a", "r", "n", "i", "n", "g", "-", "p", "o", "w", "e", "r", "e", "d", " ", "a",
            "u", "t", "o", "m", "a", "t", "e", "d", " ", "g", "r", "a", "d", "i", "n", "g",
            " ", "s", "y", "s", "t", "e", "m">>),
        Str(<<
            "Y", "e", "s">>),
        Str(<<
            "S", "t", "u", "d", "e", "n", "t", " ", "t", "r", "a", "i", "n", "i", "n", "g",
            " ", "p", "r", "o", "g", "r", "a", "m", " ", "o", "n", " ", "m", "o", "d", "e",
            "l", " ", "i", "n", "t", "e", "r", "p", "r", "e", "t", "a", "t", "i", "o", "n">>)>>,
      <<Str(<<
            "e", "m", "i", "l", "y", ".", "w", "i", "l", "s", "o", "n", "@", "g", "m", "a",
            "i", "l", ".", "c", "o", "m">>),
        Str(<<
            "G", "r", "a", "d", "u", "a", "t", "e">>),
        Str(<<
            "E", "n", "g", "i", "n", "e", "e", "r", "i", "n", "g">>),
        Str(<<
            "V", "e", "r", "y", " ", "f", "a", "m", "i", "l", "i", "a", "r">>),
        Str(<<
            "C", "h", "a", "t", "G", "P", "T", ",", " ", "D", "A", "L", "L", "-", "E">>),
        Str(<<
            "C", "h", "a", "t", "G", "P", "T", ",", " ", "D", "A", "L", "L", "-", "E">>),
        Str(<<
            "5">>),
        Str(<<
            "P", "r", "i", "v", "a", "c", "y", " ", "c", "o", "n", "c", "e", "r", "n", "s",
            ",", " ", "D", "a", "t", "a", " ", "q", "u", "a", "l", "i", "t", "y", " ", "i",
            "s", "s", "u", "e", "s">>),
        Str(<<
            "A", "I", "-", "p", "o", "w", "e", "r", "e", "d", " ", "c", "o", "d", "e", " ",
            "a", "s", "s", "i", "s", "t", "a", "n", "c", "e">>),
        Str(<<
            "Y", "e", "s">>),
        Str(<<
            "I", "n", "t", "e", "g", "r", "a", "t", "e", " ", "A", "I", " ", "t", "o", "o",
            "l", "s", " ", "d", "i", "r", "e", "c", "t", "l", "y", " ", "i", "n", "t", "o",
            " ", "t", "h", "e", " ", "l", "e", "a", "r", "n", "i", "n", "g", " ", "m", "a",
            "n", "a", "g", "e", "m", "e", "n", "t", " ", "s", "y", "s", "t", "e", "m">>)>>,
      <<Str(<<
            "a", "l", "e", "x", ".", "j", "o", "h", "n", "s", "o", "n", "@", "g", "m", "a",
            "i", "l", ".", "c", "o", "m">>),
        Str(<<
            "U", "n", "d", "e", "r", "g", "r", "a", "d", "u", "a", "t", "e">>),
        Str(<<
            "S", "c", "i", "e", "n", "c", "e">>),
        Str(<<
            "M", "o", "d", "e", "r", "a", "t", "e", "l", "y", " ", "f", "a", "m", "i", "l",
            "i", "a", "r">>),
        Str(<<
            "C", "h", "a", "t", "G", "P", "T">>),
        Str(<<
            "C", "h", "a", "t", "G", "P", "T">>),
        Str(<<
            "3">>),
        Str(<<
            "A", "c", "c", "u", "r", "a", "c", "y", " ", "o", "f", " ", "i", "n", "f", "o",
            "r", "m", "a", "t", "i", "o", "n", ",", " ", "E", "t", "h", "i", "c", "a", "l",
            " ", "c", "o", "n", "c", "e", "r", "n", "s">>),
        Str(<<
            "P", "e", "r", "s", "o", "n", "a", "l", "i", "z", "e", "d", " ", "l", "e", "a",
            "r", "n", "i", "n", "g", " ", "a", "s", "s", "i", "s", "t", "a", "n", "t">>),
        Str(<<
            "Y", "e", "s">>),
        Str(<<
            "P", "r", "o", "v", "i", "d", "e", " ", "m", "o", "r", "e", " ", "t", "r", "a",
            "i", "n", "i", "n", "g", " ", "o", "n", " ", "r", "e", "s", "p", "o", "n", "s",
            "i", "b", "l", "e", " ", "A", "I", " ", "u", "s", "e">>)>>,
      <<Str(<<
            "s", "a", "r", "a", "h", ".", "l", "e", "e", "@", "g", "m", "a", "i", "l", ".",
            "c", "o", "m">>),
        Str(<<
            "G", "r", "a", "d", "u", "a", "t", "e">>),
        Str(<<
            "A", "r", "t", "s">>),
        Str(<<
            "S", "l", "i", "g", "h", "t", "l", "y", " ", "f", "a", "m", "i", "l", "i", "a", "r">>),
        Str(<<
            "G", "r", "a", "m", "m", "a", "r", "l", "y">>),
        Str(<<
            "G", "r", "a", "m", "m", "a", "r", "l", "y">>),
        Str(<<
            "2">>),
        Str(<<
            "L", "i", "m", "i", "t", "e", "d", " ", "a", "c", "c", "e", "s", "s", " ", "t",
            "o", " ", "a", "d", "v", "a", "n", "c", "e", "d", " ", "t", "o", "o", "l", "s">>),
        Str(<<
            "C", "r", "e", "a", "t", "i", "v", "e", " ", "w", "r", "i", "t", "i", "n", "g",
            " ", "a", "s", "s", "i", "s", "t", "a", "n", "t">>),
        Str(<<
            "Y", "e", "s">>),
        Str(<<
            "D", "e", "v", "e", "l", "o", "p", " ", "s", "p", "e", "c", "i", "a", "l", "i",
            "z", "e", "d", " ", "A", "I", " ", "t", "o", "o", "l", "s", " ", "f", "o", "r",
            " ", "h", "u", "m", "a", "n", "i", "t", "i", "e", "s">>)>>,
      <<Str(<<
            "m", "i", "c", "h", "a", "e", "l", ".", "b", "r", "o", "w", "n", "@", "g", "m",
            "a", "i", "l", ".", "c", "o", "m">>),
        Str(<<
            "P", "h", "D">>),
        Str(<<
            "S", "c", "i", "e", "n", "c", "e">>),
        Str(<<
            "E", "x", "t", "r", "e", "m", "e", "l", "y", " ", "f", "a", "m", "i", "l", "i",
            "a", "r">>),
        Str(<<
            "C", "h", "a", "t", "G", "P", "T", ",", " ", "G", "i", "t", "H", "u", "b", " ",
            "C", "o", "p", "i", "l", "o", "t", ",", " ", "S", "t", "a", "b", "l", "e", " ",
            "D", "i", "f", "f", "u", "s", "i", "o", "n">>),
        Str(<<
            "C", "h", "a", "t", "G", "P", "T", ",", " ", "G", "i", "t", "H", "u", "b", " ",
            "C", "o", "p", "i", "l", "o", "t", ",", " ", "S", "t", "a", "b", "l", "e", " ",
            "D", "i", "f", "f", "u", "s", "i", "o", "n">>),
        Str(<<
            "5">>),
        Str(<<
            "I", "n", "t", "e", "g", "r", "a", "t", "i", "o", "n", " ", "w", "i", "t", "h",
            " ", "e", "x", "i", "s", "t", "i", "n", "g", " ", "w", "o", "r", "k", "f", "l",
            "o", "w", "s">>),
        Str(<<
            "R", "e", "s", "e", "a", "r", "c", "h", " ", "p", "a", "p", "e", "r", " ", "a",
            "n", "a", "l", "y", "z", "e", "r">>),
        Str(<<
            "Y", "e", "s">>),
        Str(<<
            "C", "r", "e", "a", "t", "e", " ", "A", "I", " ", "e", "t", "h", "i", "c", "s",
            " ", "g", "u", "i", "d", "e", "l", "i", "n", "e", "s", " ", "f", "o", "r", " ",
            "a", "c", "a", "d", "e", "m", "i", "c", " ", "r", "e", "s", "e", "a", "r", "c", "h">>)>>>>]

\* The preview object of a name.
PreviewOf(name) ==
    CASE name = "large" -> PreviewLarge
      [] name = "mixed" -> PreviewMixed
      [] name = "dummy" -> DummyPreview
      [] OTHER -> PreviewEmpty

\* The rows of a preview, by their position in preview.rows: the arrays the
\* handlers filter, slice and render hold rows of this one.
RowsOf(name) == [i \in 1..Len(PreviewOf(name).rows) |-> i]

\* What the user can type into #data-search.
SearchTerms == {<<>>, <<"A", " ">>, <<"c">>, <<"0">>, <<"-">>}

\* The options of #data-search-column the user picks among: "All columns" and
\* the first three columns listed.
ColumnChoices == {AllColumns, 0, 1, 2}

----------------------------------------------------------------------------
(* The data preview: functions *)

\* Array.prototype.slice(start, end)
Slice(seq, start, end) == SubSeq(seq, start + 1, Min(end, Len(seq)))

\* updatePaginationButtons (310-323)
updatePaginationButtons(pag, view) ==
    IF pag.defined
    THEN [view EXCEPT !.prevDisabled = (pag.page = 0),
                      !.nextDisabled = (pag.page >= pag.totalPages - 1)]
    ELSE view

\* The second argument of displayDataPreview: null by default.
NoFilter == [given |-> FALSE, rows |-> <<>>]
Filtered(rows) == [given |-> TRUE, rows |-> rows]

\* displayDataPreview (106-183) on the pagination and the view it finds: st is
\* [pag, view], preview the name of the preview object. Without rows the
\* table is hidden and one of the two messages shown, and the function
\* returns (128-141); otherwise the table shows all
\* rows, or the slice of the stored page when there are more than a page of
\* them and the pagination exists.
displayDataPreview(preview, filteredRows, st) ==
    LET rowsToDisplay == IF filteredRows.given THEN filteredRows.rows ELSE RowsOf(preview)
        loaded == [st.view EXCEPT !.loading = FALSE]
    IN  IF Len(rowsToDisplay) = 0
        THEN [st EXCEPT !.view = [loaded EXCEPT !.table = FALSE,
                                                !.empty = ~filteredRows.given,
                                                !.noResults = filteredRows.given]]
        ELSE LET paged == st.pag.defined /\ Len(rowsToDisplay) > RowsPerPage
                 start == st.pag.page * RowsPerPage
                 displayedRows == IF paged
                                  THEN Slice(rowsToDisplay, start, start + RowsPerPage)
                                  ELSE rowsToDisplay
                 pag == IF paged
                        THEN [st.pag EXCEPT !.totalPages = CeilPages(Len(rowsToDisplay))]
                        ELSE st.pag
                 shown == [loaded EXCEPT !.empty = FALSE, !.noResults = FALSE,
                                         !.table = TRUE,
                                         !.body = displayedRows,
                                         !.total = Len(rowsToDisplay),
                                         !.columnOptions =
                                             IF @ = 0 THEN Len(PreviewOf(preview).columns)
                                             ELSE @]
             IN  [pag |-> pag,
                  view |-> IF paged THEN updatePaginationButtons(pag, shown) ELSE shown]

\* The filter of performDataSearch (242-254): columnIndex is -1 for "All
\* columns".
\* String(cell || '').toLowerCase() of every cell of a preview (245, 252),
\* worked out once for each preview.
SearchTextOf(preview) ==
    LET RowText(row) == SubSeq([k \in 1..Len(row) |-> toLowerCase(SearchedCell(row[k]))],
                               1, Len(row))
    IN  SubSeq([i \in 1..Len(preview.rows) |-> RowText(preview.rows[i])],
               1, Len(preview.rows))
SearchTexts ==
    [large |-> SearchTextOf(PreviewLarge), mixed |-> SearchTextOf(PreviewMixed),
     empty |-> SearchTextOf(PreviewEmpty), dummy |-> SearchTextOf(DummyPreview)]

\* The filter callback (241-256) on the row at position i of a preview.
RowMatchesAt(preview, i, searchTerm, columnIndex) ==
    LET text == SearchTexts[preview][i]
    IN  IF columnIndex >= 0 /\ columnIndex < Len(text)
        THEN Includes(text[columnIndex + 1], searchTerm)
        ELSE IF columnIndex = AllColumns
        THEN \E k \in 1..Len(text) : Includes(text[k], searchTerm)
        ELSE FALSE

FilterRows(preview, searchTerm, columnIndex) ==
    LET Keep(i) == RowMatchesAt(preview, i, searchTerm, columnIndex)
    IN  SelectSeq(RowsOf(preview), Keep)

\* searchInput.value.toLowerCase().trim()
SearchTermOf(input) == TrimChars(toLowerCase(input))

\* performDataSearch (226-264)
performDataSearch(data, input, columnIndex, st) ==
    IF data = NoPreview THEN st
    ELSE IF SearchTermOf(input) = <<>> THEN displayDataPreview(data, NoFilter, st)
    ELSE LET shown == displayDataPreview(
                          data, Filtered(FilterRows(data, SearchTermOf(input), columnIndex)),
                          st)
             pag == [shown.pag EXCEPT !.page = 0]
         IN  IF shown.pag.defined
             THEN [pag |-> pag, view |-> updatePaginationButtons(pag, shown.view)]
             ELSE shown

\* changePage without the check of the new page (289-291).
changePageUnchecked(data, input, columnIndex, st, direction) ==
    IF ~st.pag.defined \/ data = NoPreview THEN st
    ELSE LET moved == [st EXCEPT !.pag.page = st.pag.page + direction]
         IN  IF Len(TrimChars(input)) > 0
             THEN performDataSearch(data, input, columnIndex, moved)
             ELSE displayDataPreview(data, NoFilter, moved)

\* changePage (282-307)
changePage(data, input, columnIndex, st, direction) ==
    IF ~st.pag.defined \/ data = NoPreview THEN st
    ELSE LET newPage == st.pag.page + direction
             moved == [st EXCEPT !.pag.page = newPage]
         IN  IF newPage < 0 \/ newPage >= st.pag.totalPages THEN st
             ELSE IF Len(TrimChars(input)) > 0
             THEN performDataSearch(data, input, columnIndex, moved)
             ELSE displayDataPreview(data, NoFilter, moved)

\* A click on a paging button: every listener setupPagination added (274-275)
\* runs changePage, one after the other.
RECURSIVE ClickPaging(_, _, _, _, _, _)
ClickPaging(listeners, data, input, columnIndex, st, direction) ==
    IF listeners = 0 THEN st
    ELSE ClickPaging(listeners - 1, data, input, columnIndex,
                     changePage(data, input, columnIndex, st, direction), direction)

\* initDataPreviewSearch (205-223) with setupPagination (267-279): the input
\* and change listeners are the one function performDataSearch, which
\* addEventListener registers once; the click listeners are fresh closures,
\* one more on each button every time.
initDataPreviewSearch(data, st) ==
    LET pag == [defined |-> TRUE, page |-> 0, totalPages |-> CeilPages(Len(RowsOf(data)))]
    IN  [pag |-> pag,
         view |-> updatePaginationButtons(
                      pag, [st.view EXCEPT !.searchWired = TRUE,
                                           !.clickListeners = @ + 1])]

\* showDataPreviewEmpty (326-336)
showDataPreviewEmpty(view) ==
    [view EXCEPT !.loading = FALSE, !.table = FALSE, !.empty = TRUE]

\* loadDummyDataPreview (339-401), after window.previewData = dummyPreview.
loadDummyDataPreview(st) ==
    initDataPreviewSearch("dummy", displayDataPreview("dummy", NoFilter, st))

PreviewState == [pag |-> previewPagination, view |-> previewView]

----------------------------------------------------------------------------
(* The data preview: operations. The callbacks of loadData call              *)
(* loadDataPreview (40) and loadDummyDataPreview (53); what else they do     *)
(* (see LoadThen, LoadCatch) leaves the preview alone and is left out here.  *)

NewPreview == [state |-> "inflight", response |-> "none", body |-> NoPreview]
\* A preview load whose callbacks have run.
DonePreview == [state |-> "done", response |-> "none", body |-> NoPreview]

\* loadDataPreview up to fetch() (58-76), called by the .then of loadData.
LoadDataPreview ==
    /\ Len(previews) < MaxPreviewLoads
    /\ previewView' = [previewView EXCEPT !.loading = TRUE, !.table = FALSE,
                                          !.empty = FALSE, !.body = <<>>,
                                          !.lastEvent = "load"]
    /\ previews' = Append(previews, NewPreview)
    /\ UNCHANGED <<previewData, previewPagination, searchInput, columnSelect>>
    /\ UNCHANGED <<dashVars, presVars, pageVars, storeVars, uploadVars, chartVars>>

\* What the network can do with the GET: JSON with success true and a
\* preview, JSON with success false, and what runs the .catch (a non-OK
\* status, a rejected fetch, a body that is not JSON).
PreviewOutcomes == {"success", "failure", "catch"}

PreviewRespond ==
    \E i \in 1..Len(previews), o \in PreviewOutcomes, body \in PreviewBodies :
        /\ previews[i].state = "inflight"
        /\ o # "success" => body = "empty"
        /\ previews' = [previews EXCEPT ![i].state = "arrived", ![i].response = o,
                                        ![i].body = IF o = "success" THEN body
                                                    ELSE NoPreview]
        /\ UNCHANGED <<previewData, previewPagination, previewView, searchInput,
                       columnSelect>>
        /\ UNCHANGED <<dashVars, presVars, pageVars, storeVars, uploadVars, chartVars>>

\* .then(data => ...) of loadDataPreview (83-95): displayDataPreview runs on
\* the pagination of the preview before, then window.previewData is stored
\* and initDataPreviewSearch starts the pagination afresh.
PreviewThen ==
    \E i \in 1..Len(previews) :
        /\ previews[i].state = "arrived"
        /\ previews[i].response \in {"success", "failure"}
        /\ IF previews[i].response = "success"
           THEN LET st == initDataPreviewSearch(
                              previews[i].body,
                              displayDataPreview(previews[i].body, NoFilter, PreviewState))
                IN  /\ previewData' = previews[i].body
                    /\ previewPagination' = st.pag
                    /\ previewView' = [st.view EXCEPT !.lastEvent = "then"]
           ELSE /\ previewView' = [showDataPreviewEmpty(previewView) EXCEPT
                                      !.lastEvent = "failed"]
                /\ UNCHANGED <<previewData, previewPagination>>
        /\ previews' = [previews EXCEPT ![i] = DonePreview]
        /\ UNCHANGED <<searchInput, columnSelect>>
        /\ UNCHANGED <<dashVars, presVars, pageVars, storeVars, uploadVars, chartVars>>

\* .catch(error => ...) of loadDataPreview (96-102).
PreviewCatch ==
    \E i \in 1..Len(previews) :
        LET st == loadDummyDataPreview([pag |-> previewPagination,
                                        view |-> showDataPreviewEmpty(previewView)])
        IN  /\ previews[i].state = "arrived"
            /\ previews[i].response = "catch"
            /\ previewData' = "dummy"
            /\ previewPagination' = st.pag
            /\ previewView' = [st.view EXCEPT !.lastEvent = "catch"]
            /\ previews' = [previews EXCEPT ![i] = DonePreview]
            /\ UNCHANGED <<searchInput, columnSelect>>
            /\ UNCHANGED <<dashVars, presVars, pageVars, storeVars, uploadVars, chartVars>>

\* loadDummyDataPreview as the .catch of loadData calls it (53): a preview
\* load without a request.
DummyPreviewLoaded ==
    LET st == loadDummyDataPreview(PreviewState)
    IN  /\ Len(previews) < MaxPreviewLoads
        /\ previewData' = "dummy"
        /\ previewPagination' = st.pag
        /\ previewView' = [st.view EXCEPT !.lastEvent = "dummy"]
        /\ previews' = Append(previews, DonePreview)
        /\ UNCHANGED <<searchInput, columnSelect>>
        /\ UNCHANGED <<dashVars, presVars, pageVars, storeVars, uploadVars, chartVars>>

\* The user types into #data-search, once initDataPreviewSearch has added
\* the listener: the input event runs performDataSearch.
SearchInput ==
    \E input \in SearchTerms \ {searchInput} :
        LET st == performDataSearch(previewData, input, columnSelect, PreviewState)
        IN  /\ previewView.searchWired
            /\ searchInput' = input
            /\ previewPagination' = st.pag
            /\ previewView' = [st.view EXCEPT !.lastEvent = "search"]
            /\ UNCHANGED <<previewData, columnSelect, previews>>
            /\ UNCHANGED <<dashVars, presVars, pageVars, storeVars, uploadVars, chartVars>>

\* The user picks another option of #data-search-column: "All columns" or one
\* of the columns populateSearchColumnDropdown listed.
ColumnChange ==
    \E columnIndex \in {c \in ColumnChoices : c < previewView.columnOptions} \ {columnSelect} :
        LET st == performDataSearch(previewData, searchInput, columnIndex, PreviewState)
        IN  /\ previewView.searchWired
            /\ columnSelect' = columnIndex
            /\ previewPagination' = st.pag
            /\ previewView' = [st.view EXCEPT !.lastEvent = "column"]
            /\ UNCHANGED <<previewData, searchInput, previews>>
            /\ UNCHANGED <<dashVars, presVars, pageVars, storeVars, uploadVars, chartVars>>

\* A click on #data-preview-prev or #data-preview-next; a disabled button
\* raises no click.
ClickPrevious ==
    LET st == ClickPaging(previewView.clickListeners, previewData, searchInput,
                          columnSelect, PreviewState, 0 - 1)
    IN  /\ previewView.clickListeners > 0
        /\ ~previewView.prevDisabled
        /\ previewPagination' = st.pag
        /\ previewView' = [st.view EXCEPT !.lastEvent = "prev"]
        /\ UNCHANGED <<previewData, searchInput, columnSelect, previews>>
        /\ UNCHANGED <<dashVars, presVars, pageVars, storeVars, uploadVars, chartVars>>

ClickNext ==
    LET st == ClickPaging(previewView.clickListeners, previewData, searchInput,
                          columnSelect, PreviewState, 1)
    IN  /\ previewView.clickListeners > 0
        /\ ~previewView.nextDisabled
        /\ previewPagination' = st.pag
        /\ previewView' = [st.view EXCEPT !.lastEvent = "next"]
        /\ UNCHANGED <<previewData, searchInput, columnSelect, previews>>
        /\ UNCHANGED <<dashVars, presVars, pageVars, storeVars, uploadVars, chartVars>>

PreviewInit ==
    /\ DashboardIdle
    /\ PresenterIdle

PreviewNext ==
    \/ LoadDataPreview
    \/ PreviewRespond
    \/ PreviewThen
    \/ PreviewCatch
    \/ DummyPreviewLoaded
    \/ SearchInput
    \/ ColumnChange
    \/ ClickPrevious
    \/ ClickNext

PreviewSpec == PreviewInit /\ [][PreviewNext]_vars

\* The promise callbacks run once their response is there; nothing makes the
\* network answer.
FairSpec ==
    /\ Init
    /\ [][Next]_vars
    /\ WF_vars(LoadThen)
    /\ WF_vars(LoadCatch)
    /\ WF_vars(TrainThen)
    /\ WF_vars(TrainCatch)

----------------------------------------------------------------------------
(* Vocabulary of the claims *)

Last(seq) == seq[Len(seq)]

\* A step in which trainModel was called.
TrainModelCalled == Len(trains') = Len(trains) + 1

\* A step in which trainModel sent its POST.
TrainModelPosted == TrainModelCalled /\ Last(trains').posts > 0

\* The data-type the select carries for a column, "" for none.
OptionType(options, column) ==
    IF \E k \in 1..Len(options) : options[k].value = column
    THEN (CHOOSE o \in RangeOf(options) : o.value = column).type
    ELSE ""

\* resolve() of the Model Request Resolver for the values of #model-type, read
\* as widely as the names allow: LinearRegression is a regressor only, the
\* other types have a regressor and a classifier variant.
AllowedModelTypes(kind) ==
    IF kind = "numeric" THEN {"LinearRegression", "RandomForest", "GradientBoosting", "SVM"}
    ELSE IF kind = "categorical" THEN {"LogisticRegression", "RandomForest", "GradientBoosting", "SVM"}
    ELSE {}

\* Fields that would mark an object as demo data.
SyntheticMarkers == {"synthetic", "is_synthetic", "mock", "is_mock", "demo", "is_demo"}
LabelledSynthetic(object) == object.keys \cap SyntheticMarkers # {}

----------------------------------------------------------------------------
(* Claims *)

\* C1: a training submission whose model type is outside the family resolved
\* from the target column's kind sends no POST to /api/train_model.
C1_MismatchSendsNoPost ==
    [][TrainModelPosted =>
         Last(trains').modelType \in
             AllowedModelTypes(OptionType(targetOptions, Last(trains').target))]_vars

\* C2: window.dashboardData and window.modelResults never hold the output of
\* createDummyData / createMockModelResults unless it is marked as synthetic.
C2_NoUnlabelledPlaceholder ==
    /\ dataOrigin = "fixture" => LabelledSynthetic(dashboardData)
    /\ resultsOrigin = "fixture" => LabelledSynthetic(modelResults)

\* C3: every trainModel submission issues at most one POST, as many POSTs were
\* issued as submissions passed validation, and every submission whose request
\* failed (success=false, or the .catch ran) had an error shown to the user.
C3_FailureSurfacedNoRetry ==
    \A i \in 1..Len(trains) :
        /\ trains[i].posts <= 1
        /\ trains[i].posts = (IF trains[i].state = "invalid" THEN 0 ELSE 1)
        /\ (trains[i].state = "done" /\ trains[i].response \in {"failure", "catch"})
               => trains[i].errorShown

\* C3 witness: a submission was posted once, failed, and its error was shown,
\* and a later submission is in flight.
C3_Witness ==
    \E i, j \in 1..Len(trains) :
        /\ i < j
        /\ trains[i].state = "done" /\ trains[i].response = "catch"
        /\ trains[i].posts = 1 /\ trains[i].errorShown
        /\ trains[j].state = "inflight"

\* C4: no step of trainModel (validation, submission, response, callbacks)
\* changes window.dashboardData or the options of the target-column select.
C4_TrainLeavesSummary ==
    [][trains' # trains =>
         /\ dashboardData' = dashboardData
         /\ targetOptions' = targetOptions]_vars

\* C4 witness: after a failed attempt on a loaded summary, a second attempt
\* against the same summary has been submitted.
C4_Witness ==
    /\ Len(trains) = 2
    /\ trains[1].state = "done" /\ trains[1].response \in {"failure", "catch"}
    /\ trains[2].state = "inflight"
    /\ HasStats(dashboardData)
    /\ trains[2].target \in StatsKeys(dashboardData)
    /\ targetOptions = populateTargetColumnSelect(dashboardData.stats)

\* C5: the target_column of every training request sent is a key of the stats
\* of the summary held in window.dashboardData when it is sent.
C5_PostedTargetInSummary ==
    [][TrainModelPosted => lastPost'.target_column \in StatsKeys(dashboardData')]_vars

\* C6: trainModel called with a target that is absent from the summary (the
\* empty choice included) shows an error, sends nothing and leaves
\* window.modelResults, the overlay and the model-target-name label unchanged.
C6_UnknownTargetRejected ==
    [][(TrainModelCalled /\ Last(trains').target \notin StatsKeys(dashboardData)) =>
         /\ Last(trains').posts = 0
         /\ Last(trains').errorShown
         /\ lastPost' = lastPost
         /\ modelResults' = modelResults
         /\ loadingOverlay' = loadingOverlay
         /\ targetNameLabel' = targetNameLabel]_vars

\* C7: every training request sent carries a test_size strictly between 0 and 1.
C7_TestSizeInOpenUnitInterval ==
    lastPost.sent =>
        /\ 0 < lastPost.test_size.num
        /\ lastPost.test_size.num < lastPost.test_size.den

\* C8: a training request in flight is eventually settled (its attempt
\* reported, the overlay it showed hidden), whether or not a response arrives.
C8_TrainingEventuallySettles ==
    \A i \in 1..MaxRequests :
        (i <= Len(trains) /\ trains[i].state = "inflight")
            ~> (i <= Len(trains) /\ trains[i].state = "done")

\* Sum of f over the finite set S.
RECURSIVE SumOver(_, _)
SumOver(S, f) ==
    IF S = {} THEN 0
    ELSE LET x == CHOOSE y \in S : TRUE IN f[x] + SumOver(S \ {x}, f)

\* C9: the full confusion matrix is rendered iff actual and predicted hold at
\* most 10 distinct labels; then cell (a, p) counts the rows with actual = a
\* and predicted = p and the cells sum to n. Otherwise the first min(n, 20)
\* rows are rendered with a match count taken over all n rows.
C9_MatrixOrSample ==
    categoricalView.rendered =>
        LET actual == predictions.actual
            predicted == predictions.predicted
            n == Len(actual)
            labels == RangeOf(actual) \cup RangeOf(predicted)
            view == categoricalView
        IN  /\ (view.kind = "matrix") <=> (Cardinality(labels) <= 10)
            /\ view.kind = "matrix" =>
                 /\ RangeOf(view.categories) = labels
                 /\ Len(view.categories) = Cardinality(labels)
                 /\ \A a \in labels : \A p \in labels :
                        view.matrix[a][p] =
                            Cardinality({i \in 1..n : actual[i] = a /\ predicted[i] = p})
                 /\ SumOver(labels \X labels,
                            [c \in labels \X labels |-> view.matrix[c[1]][c[2]]]) = n
            /\ view.kind # "matrix" =>
                 /\ view.kind = "sample"
                 /\ Len(view.rows) = (IF n < 20 THEN n ELSE 20)
                 /\ \A i \in 1..Len(view.rows) :
                        /\ view.rows[i].index = i
                        /\ view.rows[i].actual = actual[i]
                        /\ view.rows[i].predicted = predicted[i]
                        /\ view.rows[i].match = (actual[i] = predicted[i])
                 /\ view.correct = Cardinality({i \in 1..n : actual[i] = predicted[i]})
                 /\ view.outOf = n

\* C9 witness: more than 10 labels in more than 20 rows, rendered as a sample
\* table cut to 20 rows, with some but not all of the rows correct.
C9_Witness ==
    /\ categoricalView.rendered
    /\ categoricalView.kind = "sample"
    /\ Len(predictions.actual) > 20
    /\ Len(categoricalView.rows) = 20
    /\ categoricalView.correct > 0
    /\ categoricalView.correct < categoricalView.outOf

\* view lists the top k entries of the mapping in non-increasing order of weight.
IsTopRanking(view, entries, k) ==
    /\ Len(view) = (IF Len(entries) < k THEN Len(entries) ELSE k)
    /\ \A i \in 1..Len(view) : view[i] \in RangeOf(entries)
    /\ \A i, j \in 1..Len(view) : i < j => view[i] # view[j] /\ view[i][2] >= view[j][2]
    /\ \A e \in RangeOf(entries) \ RangeOf(view) : \A i \in 1..Len(view) : view[i][2] >= e[2]

ShownRankings ==
    (IF importanceView.chartShown THEN {importanceView.chart} ELSE {}) \cup
    (IF importanceView.csvShown THEN {importanceView.csv} ELSE {}) \cup
    (IF importanceView.listShown THEN {importanceView.keyFactors} ELSE {})

\* C10 as stated: chart, exported CSV and key-factor list all show the mapping
\* in non-increasing order of weight, truncated to the same top K (K = 10 in
\* the spec's example), every listed entry being an entry of the mapping.
C10_TruncatedToTopK ==
    \E K \in 1..(MaxFeatures + 10) :
        \A view \in ShownRankings : IsTopRanking(view, featureImportance.entries, K)

\* C10 amended: the chart and the exported CSV list every entry of the mapping
\* in non-increasing order of weight, without truncation; the key-factor list,
\* shown for an AI-adoption target only, is the first 5 entries of that order.
C10_RankingAllOrTopFive ==
    LET entries == featureImportance.entries
    IN  /\ importanceView.chartShown => IsTopRanking(importanceView.chart, entries, Len(entries))
        /\ importanceView.csvShown => IsTopRanking(importanceView.csv, entries, Len(entries))
        /\ importanceView.listShown => IsTopRanking(importanceView.keyFactors, entries, 5)

\* C10 witness: a mapping of more than 5 entries, not in order, shown three
\* times: the list cut to 5, the chart and the CSV complete.
C10_Witness ==
    /\ importanceView.chartShown /\ importanceView.csvShown /\ importanceView.listShown
    /\ Len(featureImportance.entries) > 5
    /\ \E i \in 1..(Len(featureImportance.entries) - 1) :
          featureImportance.entries[i][2] < featureImportance.entries[i + 1][2]
    /\ Len(importanceView.keyFactors) = 5
    /\ Len(importanceView.chart) = Len(featureImportance.entries)
    /\ Len(importanceView.csv) = Len(featureImportance.entries)
    /\ importanceView.chart # featureImportance.entries

\* Sum of the weights of the entries of a mapping.
TotalWeight(entries) ==
    SumOver(1..Len(entries), [i \in 1..Len(entries) |-> entries[i][2]])

\* percents are the shares 100 * weight / total of the ranking's entries, as
\* printed with one decimal.
AreShares(percents, ranking, total) ==
    /\ Len(percents) = Len(ranking)
    /\ \A i \in 1..Len(ranking) : percents[i] = RoundHalfUp(1000 * ranking[i][2], total)

\* C11: for a non-empty mapping of non-negative weights with a positive sum,
\* the percentage shown for a feature (key-factor list, chart tooltip) is
\* 100 * weight / (sum of all weights), whatever the sum is, and the
\* percentages of the chart, which shows every feature, total 100% up to the
\* rounding of each to one decimal.
C11_PercentagesNormalised ==
    LET entries == featureImportance.entries
        total == TotalWeight(entries)
        shown == importanceView.tooltipPercent
    IN  (importanceView.displayed /\ entries # <<>> /\ total > 0) =>
            /\ importanceView.listShown =>
                   AreShares(importanceView.listPercent, importanceView.keyFactors, total)
            /\ importanceView.chartShown =>
                   /\ AreShares(shown, importanceView.chart, total)
                   /\ LET sum == SumOver(1..Len(shown), shown)
                      IN  /\ 2 * (sum - 1000) <= Len(shown)
                          /\ 2 * (1000 - sum) <= Len(shown)

\* C12: no step of the result presenter (displayModelResults with
\* createFeatureImportanceChart and createPredictionVsActualChart or
\* createCategoricalPredictionTable, exportModelResults) changes a field of
\* the ModelResult it is given: metrics, the feature_importance entries and
\* their order, predictions.actual, predictions.predicted.
C12_PresenterLeavesInput ==
    [][/\ featureImportance' = featureImportance
       /\ predictions' = predictions
       /\ resultData' = resultData]_vars

\* C12 witness: a result whose mapping is not in order of weight has been
\* displayed and exported, the rankings shown in another order than the
\* mapping's, its predictions rendered.
C12_Witness ==
    /\ importanceView.displayed /\ importanceView.csvShown
    /\ importanceView.chartShown /\ categoricalView.rendered
    /\ Len(predictions.actual) > 1
    /\ Len(importanceView.metricCards) > 0
    /\ importanceView.chart # featureImportance.entries
    /\ importanceView.csv # featureImportance.entries
    /\ \E i \in 1..(Len(featureImportance.entries) - 1) :
          featureImportance.entries[i][2] < featureImportance.entries[i + 1][2]

\* A step of a loadData callback: a whole summary (a body the server
\* answered, or the dummy summary) put in place and displayed.
LoadCallbackStep ==
    /\ dashboardData' \in SummaryBodies \cup {createDummyData}
    /\ targetOptions' = displayData(dashboardData', targetOptions)
    /\ summaryView' = DisplayedSummary(dashboardData', summaryView)
    /\ loadingOverlay' = FALSE
    /\ UNCHANGED <<modelResults, targetNameLabel, lastPost>>

\* C13: once a summary is stored in window.dashboardData, no operation (stats
\* cards, charts, target select, scatter dialog and plot, training, insights)
\* changes a field of it; window.dashboardData changes only in a callback of
\* loadData, which replaces it as a whole.
C13_SummaryOnlyReplacedByLoad ==
    [][dashboardData' # dashboardData => LoadCallbackStep]_vars

\* C13 witness: on a stored summary the cards and the charts are drawn, the
\* scatter plot is generated from its ranges with a colour column, a training
\* has settled and insights are shown, and the summary is the one loaded.
C13_Witness ==
    /\ dashboardData = ServerSummaryA
    /\ summaryView.cards.shown /\ Len(summaryView.charts) = 2
    /\ summaryView.scatterPlot.shown
    /\ summaryView.scatterPlot.xRange = <<18, 65>>
    /\ summaryView.scatterPlot.categories = <<"Engineering", "Sales">>
    /\ modelResults.defined /\ ~summaryView.pendingTrain
    /\ summaryView.insights = "mock"

\* Keys of an object given by its entries.
KeysOf(entries) == {entries[i][1] : i \in 1..Len(entries)}

\* C14: every result built by createMockModelResults has predictions.actual
\* and predictions.predicted of equal length, and when is_categorical_target
\* is true every label in actual or predicted is a key of
\* predictions.categorical_mapping, whose values are the distinct ordinal
\* indices 0..k-1 of its k categories.
C14_MockPredictionsParallel ==
    resultsOrigin = "fixture" =>
        LET preds == modelResults.predictions
            mapping == preds.categorical_mapping
        IN  /\ Len(preds.actual) = Len(preds.predicted)
            /\ modelResults.is_categorical_target =>
                 /\ preds.has_categorical_mapping
                 /\ RangeOf(preds.actual) \cup RangeOf(preds.predicted) \subseteq KeysOf(mapping)
                 /\ Cardinality(KeysOf(mapping)) = Len(mapping)
                 /\ {mapping[i][2] : i \in 1..Len(mapping)} = 0..(Len(mapping) - 1)

\* C14 witness: a categorical mock of 50 rows in which some predicted label
\* differs from the actual one and every category of the mapping occurs.
C14_Witness ==
    /\ resultsOrigin = "fixture"
    /\ modelResults.is_categorical_target
    /\ Len(modelResults.predictions.actual) = 50
    /\ \E i \in 1..50 :
          modelResults.predictions.actual[i] # modelResults.predictions.predicted[i]
    /\ RangeOf(modelResults.predictions.actual) \cup RangeOf(modelResults.predictions.predicted)
          = KeysOf(modelResults.predictions.categorical_mapping)

\* C15: for every target column name and model type, the result built by
\* createMockModelResults has exactly the classification metrics {accuracy,
\* precision, recall, f1_score} when is_categorical_target is true and
\* exactly the regression metrics {r2_score, mean_absolute_error,
\* mean_squared_error, root_mean_squared_error} otherwise.
C15_MockMetricsByTaskType ==
    resultsOrigin = "fixture" =>
        /\ Cardinality(KeysOf(modelResults.metrics)) = Len(modelResults.metrics)
        /\ KeysOf(modelResults.metrics) =
             (IF modelResults.is_categorical_target
              THEN {"accuracy", "precision", "recall", "f1_score"}
              ELSE {"r2_score", "mean_absolute_error", "mean_squared_error",
                    "root_mean_squared_error"})

\* C15 witness: the mock of a categorical target asked for with a regression
\* model type, an AI-adoption target at that, carries the accuracy metric.
C15_Witness ==
    /\ resultsOrigin = "fixture"
    /\ modelResults.is_categorical_target
    /\ modelResults.model_type = "LinearRegression"
    /\ isAIAdoption(modelResults.target_column)
    /\ modelResults.metrics[1] = <<"accuracy", 760>>

\* C16: once every training submission has settled (success, an error the
\* server reported, a network failure, or a rejection at validation), the
\* target shown in the model-target-name label is the target_column of the
\* results displayed and stored in window.modelResults.
C16_LabelEchoesResults ==
    (/\ modelResults.defined
     /\ \A i \in 1..Len(trains) : trains[i].state \in {"done", "invalid"})
        => targetNameLabel = modelResults.target_column

\* C17: the column count reported for a summary equals the number of its
\* stats entries: whenever updateStatsCards writes the cards, 'Total Columns'
\* is the number of stats keys of the summary displayed and the sum of
\* 'Numeric Columns' and 'Categorical Columns', and the column_count of the
\* summary createDummyData builds is the number of its stats keys.
C17_ColumnCountMatchesStats ==
    [][summaryView'.cards # summaryView.cards =>
         /\ summaryView'.cards.columns = Cardinality(StatsKeys(dashboardData'))
         /\ summaryView'.cards.columns =
               summaryView'.cards.numeric + summaryView'.cards.categorical
         /\ dataOrigin' = "fixture" =>
               dashboardData'.column_count = Cardinality(StatsKeys(dashboardData'))]_vars

\* C17 witness: the cards show the dummy summary: four columns, two numeric
\* and two categorical.
C17_Witness ==
    /\ dataOrigin = "fixture"
    /\ dashboardData.column_count = 4
    /\ summaryView.cards = [shown |-> TRUE, rows |-> 520, columns |-> 4,
                            numeric |-> 2, categorical |-> 2]

\* C18: in the summary createDummyData builds, the categorical column
\* Department has unique_values = 5 = the number of its value_counts keys,
\* and its value_counts sum to row_count.
C18_DepartmentCountsSumToRows ==
    dataOrigin = "fixture" =>
        LET department == StatOf(dashboardData, "Department")
            counts == department.value_counts
        IN  /\ department.type = "categorical"
            /\ department.unique_values = 5
            /\ Cardinality(KeysOf(counts)) = 5
            /\ SumOver(1..Len(counts), [i \in 1..Len(counts) |-> counts[i][2]])
                   = dashboardData.row_count

\* C19: for every model m, hyperparameter values null, NaN or absent
\* included, after addMockSavedModel(m) the list getMockSavedModels returns
\* ends with an entry field-for-field equal to m, and the entries stored
\* before are still there, unchanged and in order.
C19_StoreRoundTrip ==
    storeCall.op = "add" =>
        LET list == getMockSavedModels(mockSavedModels)
        IN  /\ Len(list) = Len(storeCall.before) + 1
            /\ Last(list) = storeCall.model
            /\ SubSeq(list, 1, Len(storeCall.before)) = storeCall.before

\* The models of a list whose identifier is not id, in the list's order.
OthersOf(list, id) ==
    LET keep == {i \in 1..Len(list) : list[i].model_id # id}
        Rank(i) == Cardinality({j \in keep : j <= i})
    IN  [n \in 1..Cardinality(keep) |-> list[CHOOSE i \in keep : Rank(i) = n]]

\* C20: removeMockSavedModel(id) removes exactly the stored models whose
\* model_id is id and leaves every other stored model unchanged and in order;
\* a second removal of the same id changes nothing; deleteModel(id) declined
\* at the confirmation issues no request and changes no stored model.
C20_DeletionByIdentifier ==
    /\ [](/\ storeCall.op = "remove" =>
                getMockSavedModels(mockSavedModels) = OthersOf(storeCall.before, storeCall.id)
          /\ storeCall.op = "declined" =>
                /\ getMockSavedModels(mockSavedModels) = storeCall.before
                /\ Len(deletes) = storeCall.deletesBefore)
    /\ [][(/\ storeCall.op = "remove" /\ storeCall'.op = "remove"
           /\ storeCall'.id = storeCall.id)
             => mockSavedModels' = mockSavedModels]_vars

\* C20 witness: of two stored models, the one of the identifier was removed
\* and the other is left as it was.
C20_Witness ==
    /\ storeCall.op = "remove"
    /\ Len(storeCall.before) = 2
    /\ storeCall.before[1].model_id = storeCall.id
    /\ storeCall.before[2].model_id # storeCall.id
    /\ getMockSavedModels(mockSavedModels) = <<storeCall.before[2]>>

\* A request whose showLoading has run and whose promise has not been handled
\* yet: sent and not answered, or answered with its callback still to run.
Pending(request) == request.state \in {"inflight", "arrived"}

\* C27: the loading overlay is visible iff at least one of the operations that
\* called showLoading still has its request pending, also when two requests
\* overlap.
C27_OverlayTracksPending ==
    loadingOverlay <=> (\/ \E i \in 1..Len(loads) : Pending(loads[i])
                        \/ \E i \in 1..Len(trains) : Pending(trains[i]))

\* The training submissions that reached fetch().
SentTrains == {i \in 1..Len(trains) : trains[i].posts > 0}

\* The results are those of the given submission: its target and model type.
ResultsOfTrain(results, train) ==
    /\ results.defined
    /\ results.target_column = train.target
    /\ results.model_type = train.modelType

\* C28: a training request whose callback runs while the request submitted
\* last (after it, so the two were in flight together) has already been
\* handled and has produced results leaves displayed and stored the results of
\* the request submitted last.
C28_LastSubmittedWins ==
    [][\A i, j \in SentTrains :
          (/\ i < j
           /\ \A k \in SentTrains : k <= j
           /\ trains[j].state = "done"
           /\ trains[j].response \in {"success", "catch"}
           /\ Pending(trains[i])
           /\ trains'[i].state = "done")
              => ResultsOfTrain(modelResults', trains[j])]_vars

\* The two outcomes of an upload submission.
NavigatedAway == uploadPage.location # "upload"
UploadErrorShown ==
    /\ uploadPage.errorShown
    /\ ~uploadPage.overlay
    /\ ~uploadPage.submitDisabled

\* C21: every upload submission the server has answered, whatever the
\* response, ends in navigation away from the upload page or in a visible
\* error with the overlay hidden and the submit button enabled again; while a
\* submission is pending the submit button is disabled and at most one request
\* is pending.
C21_UploadEndsInOneOutcome ==
    /\ \A i \in 1..MaxUploads :
          (i <= Len(uploads) /\ uploads[i].state = "arrived")
              ~> (NavigatedAway \/ UploadErrorShown)
    /\ []((\E i \in 1..Len(uploads) : Pending(uploads[i])) => uploadPage.submitDisabled)
    /\ [](Cardinality({i \in 1..Len(uploads) : Pending(uploads[i])}) <= 1)

\* A wrapper is visible unless its style.display is 'none'.
WrapperVisible(wrapper) == wrapper.display # "none"

\* C29: a chart wrapper is visible iff the value of the chart-type select is
\* 'all' or equals the wrapper's data-type.
C29_ChartFilterInForce ==
    \A i \in 1..Len(chartWrappers) :
        WrapperVisible(chartWrappers[i])
            <=> (chartType = "all" \/ chartWrappers[i].type = chartType)

\* The row set the search input and the column select ask for: all rows, or
\* the rows matching the term.
CurrentRowSet ==
    IF SearchTermOf(searchInput) = <<>> THEN RowsOf(previewData)
    ELSE FilterRows(previewData, SearchTermOf(searchInput), columnSelect)

\* The rows themselves.
RowValues(rows) == [k \in 1..Len(rows) |-> PreviewOf(previewData).rows[rows[k]]]

\* The slice [page*rowsPerPage, (page+1)*rowsPerPage) of a row set.
PageSlice(rows, page) == Slice(rows, page * RowsPerPage, (page + 1) * RowsPerPage)

\* The rows the preview table shows: those of its body while it is visible.
RenderedRows == IF previewView.table THEN previewView.body ELSE <<>>

\* The last handler to run was one of the user's events on the preview.
AfterPreviewEvent == previewView.lastEvent \in {"search", "column", "prev", "next"}

\* C22: after a search-input, column-select, previous or next event on a
\* loaded preview the rows rendered are the slice of the current row set for
\* the page index stored in window.previewPagination.page.
C22_RenderedRowsAreStoredPage ==
    (AfterPreviewEvent /\ previewData # NoPreview)
        => RowValues(RenderedRows)
             = RowValues(PageSlice(CurrentRowSet, previewPagination.page))

\* A step in which the handlers of a click on the button ran: no other
\* operation leaves the requests alone and ends with this event.
Clicked(button) ==
    /\ previewView'.lastEvent = button
    /\ UNCHANGED <<previews, searchInput, columnSelect>>
    /\ <<previewView, previewPagination>>' # <<previewView, previewPagination>>

\* C23: one click on 'next' moves the page index forward by exactly one, or
\* leaves it at the last page; one click on 'previous' moves it back by
\* exactly one, or leaves it at 0; however often the preview was loaded.
C23_OneClickOnePage ==
    [][/\ Clicked("next") =>
            previewPagination'.page =
                IF previewPagination.page + 1 < previewPagination.totalPages
                THEN previewPagination.page + 1
                ELSE previewPagination.page
       /\ Clicked("prev") =>
            previewPagination'.page =
                IF previewPagination.page > 0
                THEN previewPagination.page - 1
                ELSE previewPagination.page]_vars

\* The size of the row set shown: the total the table states, none while the
\* table is hidden.
ShownCount == IF previewView.table THEN previewView.total ELSE 0

\* C24: after a load, search, clear-search or paging event totalPages is
\* ceil(n / rowsPerPage) for the n rows of the row set shown, and 'next' is
\* enabled iff rows beyond the current page exist.
C24_TotalPagesMatchesShown ==
    (/\ previewPagination.defined
     /\ previewView.lastEvent \in {"then", "catch", "dummy", "search", "column",
                                   "prev", "next"})
        => /\ previewPagination.totalPages = CeilPages(ShownCount)
           /\ ~previewView.nextDisabled
                <=> (previewPagination.page + 1) * RowsPerPage < ShownCount

\* C25: the page index is an integer >= 0 and below totalPages whenever
\* totalPages > 0, and changePage with a direction that would leave the range
\* changes neither the pagination nor what is rendered.
C25_PageIndexInRange ==
    /\ previewPagination.page \in Nat
    /\ previewPagination.totalPages > 0
         => previewPagination.page < previewPagination.totalPages
    /\ \A direction \in {0 - 1, 1} :
          (\/ previewPagination.page + direction < 0
           \/ previewPagination.page + direction >= previewPagination.totalPages)
             => changePage(previewData, searchInput, columnSelect, PreviewState, direction)
                  = PreviewState

\* C25 witness: a click on 'next' ran changePage twice and ended on the last
\* of three pages, where a further changePage(1) is out of range.
C25_Witness ==
    /\ previewView.lastEvent = "next"
    /\ previewView.clickListeners = 2
    /\ previewPagination.totalPages = 3
    /\ previewPagination.page = 2
    /\ Len(previewView.body) = PreviewRows - 2 * RowsPerPage

\* C26: at most one of the four data-preview panels (loading indicator,
\* table, empty message, no-results message) is visible.
C26_OnePanelVisible ==
    Cardinality({panel \in {"loading", "table", "empty", "noResults"} :
                    previewView[panel]}) <= 1

\* The text the table renders for the cells the search looks at contains the
\* term, case-insensitively.
VisiblyMatches(row, searchTerm, columnIndex) ==
    IF columnIndex = AllColumns
    THEN \E k \in 1..Len(row) : Includes(toLowerCase(RenderedCell(row[k])), searchTerm)
    ELSE /\ columnIndex < Len(row)
         /\ Includes(toLowerCase(RenderedCell(row[columnIndex + 1])), searchTerm)

\* C30: after a search, for a non-empty trimmed term a row is kept iff the
\* text rendered for the selected column's cell (for at least one cell with
\* "All columns") contains the term case-insensitively; with an empty term all
\* rows are kept.
C30_SearchKeepsVisibleMatches ==
    (previewView.lastEvent \in {"search", "column"} /\ previewData # NoPreview)
        => IF SearchTermOf(searchInput) = <<>>
           THEN CurrentRowSet = RowsOf(previewData)
           ELSE \A i \in 1..Len(RowsOf(previewData)) :
                   (i \in RangeOf(CurrentRowSet))
                     <=> VisiblyMatches(PreviewOf(previewData).rows[i],
                                        SearchTermOf(searchInput), columnSelect)

====
